---- MODULE Spec2Model ----
(***************************************************************************)
(* A model of the search, filter-state and ephemeral-delivery engine of    *)
(* the bot in src/scrapper/scraper.js (and of its older variant in         *)
(* src/index.js).                                                          *)
(*                                                                         *)
(* JavaScript strings are sequences of one-character strings, so that      *)
(* split, join, parseInt, encodeURIComponent and base64url are computed    *)
(* character by character.  A JavaScript value that may be a string, null  *)
(* or undefined is a record [t, s]: t is "str", "null" or "undef", and s   *)
(* is the string (empty unless t = "str").                                 *)
(***************************************************************************)
EXTENDS Integers, Sequences, FiniteSets, TLC

\* ------------------------------------------------------------------------
\* Bounds of the model
\* ------------------------------------------------------------------------

\* The year new Date().getFullYear() gives when the bot starts
CurrentYear == 2026

\* Result pages range over 0..MaxPage (two-digit pages included).
MaxPage == 10

\* The codec's query texts are all the strings of 1..MaxQueryLen characters
\* of QueryChars, and the longer QuerySamples.
MaxQueryLen == 1

\* The largest message id an admin links to
MaxMsgId == 102

\* A delivery is made while it leaves at most this many timers made
MaxTimers == 3

\* The most items of one batch
MaxBatch == 2

\* The seconds that pass between two user actions
TickStep == 1800

\* The time of the last delivery
LastDelivery == 300

\* ------------------------------------------------------------------------
\* JavaScript values and strings
\* ------------------------------------------------------------------------

Str(s) == [t |-> "str", s |-> s]

NULL == [t |-> "null", s |-> <<>>]

UNDEFINED == [t |-> "undef", s |-> <<>>]

\* JavaScript truthiness of a string-or-null value: null, undefined and the
\* empty string are falsy.
Truthy(v) == v.t = "str" /\ v.s # <<>>

\* a || b on string-or-null values
OrElse(a, b) == IF Truthy(a) THEN a ELSE b

\* The printable ASCII characters, code 32 (space) to 126 (~), in code order
\* (code 96, the grave accent, is written "grave").
Ascii ==
    << " ", "!", "\"", "#", "$", "%", "&", "'", "(", ")", "*", "+", ",", "-", ".", "/",
       "0", "1", "2", "3", "4", "5", "6", "7", "8", "9", ":", ";", "<", "=", ">", "?",
       "@", "A", "B", "C", "D", "E", "F", "G", "H", "I", "J", "K", "L", "M", "N", "O",
       "P", "Q", "R", "S", "T", "U", "V", "W", "X", "Y", "Z", "[", "\\", "]", "^", "_",
       "grave", "a", "b", "c", "d", "e", "f", "g", "h", "i", "j", "k", "l", "m", "n", "o",
       "p", "q", "r", "s", "t", "u", "v", "w", "x", "y", "z", "{", "|", "}", "~" >>

Range(f) == {f[i] : i \in DOMAIN f}

\* The character codes, as a table: Ascii starts at code 32.
CodeOf == [c \in Range(Ascii) |-> (CHOOSE i \in 1..Len(Ascii) : Ascii[i] = c) + 31]

\* The character code of c
CharCode(c) == CodeOf[c]

IsPrintable(n) == n >= 32 /\ n <= 126

\* The character of code n; a control character (below 32, or 127) is the
\* stand-in "ctl".
CodeChar(n) == IF IsPrintable(n) THEN Ascii[n - 31] ELSE "ctl"

Digits == <<"0", "1", "2", "3", "4", "5", "6", "7", "8", "9">>

IsDigit(c) == \E i \in 1..Len(Digits) : Digits[i] = c

DigitVal(c) == (CHOOSE i \in 1..Len(Digits) : Digits[i] = c) - 1

RECURSIVE NatToString(_)
\* Number.prototype.toString for a natural number
NatToString(n) ==
    IF n < 10 THEN <<Digits[n + 1]>>
    ELSE NatToString(n \div 10) \o <<Digits[(n % 10) + 1]>>

\* `${n}` for an integer
NumToString(n) == IF n < 0 THEN <<"-">> \o NatToString(-n) ELSE NatToString(n)

RECURSIVE Join(_, _)
\* Array.prototype.join of a sequence of strings
Join(parts, sep) ==
    IF Len(parts) = 0 THEN <<>>
    ELSE IF Len(parts) = 1 THEN parts[1]
    ELSE parts[1] \o sep \o Join(Tail(parts), sep)

RECURSIVE SplitFrom(_, _, _)
\* The fields of s after the field `cur` that is being read
SplitFrom(s, sep, cur) ==
    IF s = <<>> THEN <<cur>>
    ELSE IF Head(s) = sep THEN <<cur>> \o SplitFrom(Tail(s), sep, <<>>)
    ELSE SplitFrom(Tail(s), sep, Append(cur, Head(s)))

\* String.prototype.split on a one-character separator: always at least one
\* field, empty fields kept.
Split(s, sep) == SplitFrom(s, sep, <<>>)

\* parts[i] of a JavaScript array of strings, i counted from 0: undefined
\* past the end.
At(parts, i) == IF i + 1 <= Len(parts) THEN Str(parts[i + 1]) ELSE UNDEFINED

WhiteSpace == {" "}

RECURSIVE SkipSpace(_)
SkipSpace(s) == IF s # <<>> /\ Head(s) \in WhiteSpace THEN SkipSpace(Tail(s)) ELSE s

RECURSIVE DigitPrefix(_)
DigitPrefix(s) ==
    IF s # <<>> /\ IsDigit(Head(s)) THEN <<Head(s)>> \o DigitPrefix(Tail(s)) ELSE <<>>

RECURSIVE DigitsValue(_, _)
DigitsValue(ds, acc) ==
    IF ds = <<>> THEN acc ELSE DigitsValue(Tail(ds), acc * 10 + DigitVal(Head(ds)))

\* parseInt(v) without a radix, for a string-or-undefined value: leading
\* white space is skipped, one sign is read, then the longest prefix of
\* decimal digits; no digit gives NaN.  ("0x" prefixes are outside the
\* alphabets of the model.)
parseInt(v) ==
    IF v.t # "str" THEN [nan |-> TRUE, n |-> 0]
    ELSE
        LET s0 == SkipSpace(v.s)
            neg == s0 # <<>> /\ Head(s0) = "-"
            s1 == IF s0 # <<>> /\ Head(s0) \in {"-", "+"} THEN Tail(s0) ELSE s0
            ds == DigitPrefix(s1)
        IN  IF ds = <<>> THEN [nan |-> TRUE, n |-> 0]
            ELSE [nan |-> FALSE, n |-> IF neg THEN -DigitsValue(ds, 0) ELSE DigitsValue(ds, 0)]

\* parseInt(v) || 0 : NaN and 0 are falsy
ParseIntOrZero(v) == LET r == parseInt(v) IN IF r.nan THEN 0 ELSE r.n

\* ------------------------------------------------------------------------
\* Compact token: serializeFilters / deserializeFilters
\* ------------------------------------------------------------------------

\* serializeFilters with an absent filter written as an empty field
serializeFiltersEmptyField(page, filters) ==
    LET l == OrElse(filters.file_lang, Str(<<>>))
        y == OrElse(filters.year, Str(<<>>))
        q == OrElse(filters.quality, Str(<<>>))
    IN  NumToString(page) \o <<":">> \o l.s \o <<":">> \o y.s \o <<":">> \o q.s

\* serializeFilters(page, filters): `${page}:${l}:${y}:${q}`, a falsy filter
\* written as '-'.
serializeFilters(page, filters) ==
    LET l == OrElse(filters.file_lang, Str(<<"-">>))
        y == OrElse(filters.year, Str(<<"-">>))
        q == OrElse(filters.quality, Str(<<"-">>))
    IN  NumToString(page) \o <<":">> \o l.s \o <<":">> \o y.s \o <<":">> \o q.s

\* parts[i] === '-' ? null : parts[i]
PlaceholderToNull(v) == IF v = Str(<<"-">>) THEN NULL ELSE v

\* deserializeFilters(data)
deserializeFilters(data) ==
    LET parts == Split(data, ":")
    IN  [page |-> ParseIntOrZero(At(parts, 0)),
         filters |-> [file_lang |-> PlaceholderToNull(At(parts, 1)),
                      year |-> PlaceholderToNull(At(parts, 2)),
                      quality |-> PlaceholderToNull(At(parts, 3))]]

\* ------------------------------------------------------------------------
\* Percent-encoding and base64url
\* ------------------------------------------------------------------------

HexDigits == <<"0", "1", "2", "3", "4", "5", "6", "7", "8", "9", "A", "B", "C", "D", "E", "F">>

LowerHex == <<"a", "b", "c", "d", "e", "f">>

\* The characters encodeURIComponent leaves as they are.
UriUnreserved ==
    {"A", "B", "C", "D", "E", "F", "G", "H", "I", "J", "K", "L", "M", "N", "O", "P", "Q",
     "R", "S", "T", "U", "V", "W", "X", "Y", "Z",
     "a", "b", "c", "d", "e", "f", "g", "h", "i", "j", "k", "l", "m", "n", "o", "p", "q",
     "r", "s", "t", "u", "v", "w", "x", "y", "z",
     "0", "1", "2", "3", "4", "5", "6", "7", "8", "9",
     "-", "_", ".", "!", "~", "*", "'", "(", ")"}

PercentByte(n) == <<"%", HexDigits[(n \div 16) + 1], HexDigits[(n % 16) + 1]>>

RECURSIVE encodeURIComponent(_)
\* encodeURIComponent(s) for a string of ASCII characters: every character
\* that is not unreserved becomes %XX, XX its code in upper-case hexadecimal.
encodeURIComponent(s) ==
    IF s = <<>> THEN <<>>
    ELSE (IF Head(s) \in UriUnreserved THEN <<Head(s)>> ELSE PercentByte(CharCode(Head(s))))
         \o encodeURIComponent(Tail(s))

IsHex(c) ==
    \/ \E i \in 1..Len(HexDigits) : HexDigits[i] = c
    \/ \E i \in 1..Len(LowerHex) : LowerHex[i] = c

HexVal(c) ==
    IF \E i \in 1..Len(HexDigits) : HexDigits[i] = c
    THEN (CHOOSE i \in 1..Len(HexDigits) : HexDigits[i] = c) - 1
    ELSE (CHOOSE i \in 1..Len(LowerHex) : LowerHex[i] = c) + 9

RECURSIVE decodeURIComponent(_)
\* decodeURIComponent(s): [ok, s].  ok = FALSE is the URIError thrown for a
\* '%' that is not followed by two hexadecimal digits, or for an escape of a
\* byte above 127 (the multi-byte sequences are outside the model's alphabet
\* and the encoder never writes one for an ASCII string).
decodeURIComponent(s) ==
    IF s = <<>> THEN [ok |-> TRUE, s |-> <<>>]
    ELSE IF Head(s) # "%"
    THEN LET r == decodeURIComponent(Tail(s))
         IN  [ok |-> r.ok, s |-> <<Head(s)>> \o r.s]
    ELSE IF Len(s) < 3 \/ ~IsHex(s[2]) \/ ~IsHex(s[3]) THEN [ok |-> FALSE, s |-> <<>>]
    ELSE LET b == HexVal(s[2]) * 16 + HexVal(s[3])
             r == decodeURIComponent(SubSeq(s, 4, Len(s)))
         IN  IF b > 127 THEN [ok |-> FALSE, s |-> <<>>]
             ELSE [ok |-> r.ok, s |-> <<CodeChar(b)>> \o r.s]

\* The base64url alphabet, in value order 0..63.
B64Url ==
    << "A", "B", "C", "D", "E", "F", "G", "H", "I", "J", "K", "L", "M", "N", "O", "P",
       "Q", "R", "S", "T", "U", "V", "W", "X", "Y", "Z", "a", "b", "c", "d", "e", "f",
       "g", "h", "i", "j", "k", "l", "m", "n", "o", "p", "q", "r", "s", "t", "u", "v",
       "w", "x", "y", "z", "0", "1", "2", "3", "4", "5", "6", "7", "8", "9", "-", "_" >>

B64Val(c) == (CHOOSE i \in 1..Len(B64Url) : B64Url[i] = c) - 1

RECURSIVE StringBytes(_)
\* Buffer.from(s): the UTF-8 bytes of an ASCII string
StringBytes(s) == IF s = <<>> THEN <<>> ELSE <<CharCode(Head(s))>> \o StringBytes(Tail(s))

RECURSIVE BytesString(_)
\* buf.toString('utf8') of bytes below 128
BytesString(bs) == IF bs = <<>> THEN <<>> ELSE <<CodeChar(Head(bs))>> \o BytesString(Tail(bs))

RECURSIVE Base64UrlEncode(_)
\* buf.toString('base64url'): three bytes give four characters, a rest of one
\* byte two characters, a rest of two bytes three characters; no padding.
Base64UrlEncode(bs) ==
    IF bs = <<>> THEN <<>>
    ELSE IF Len(bs) = 1
    THEN <<B64Url[(bs[1] \div 4) + 1], B64Url[((bs[1] % 4) * 16) + 1]>>
    ELSE IF Len(bs) = 2
    THEN <<B64Url[(bs[1] \div 4) + 1],
           B64Url[((bs[1] % 4) * 16 + bs[2] \div 16) + 1],
           B64Url[((bs[2] % 16) * 4) + 1]>>
    ELSE <<B64Url[(bs[1] \div 4) + 1],
           B64Url[((bs[1] % 4) * 16 + bs[2] \div 16) + 1],
           B64Url[((bs[2] % 16) * 4 + bs[3] \div 64) + 1],
           B64Url[(bs[3] % 64) + 1]>>
         \o Base64UrlEncode(SubSeq(bs, 4, Len(bs)))

RECURSIVE Base64UrlDecode(_)
\* Buffer.from(payload, 'base64url') for a payload of base64url characters:
\* four characters give three bytes, a rest of two characters one byte, a
\* rest of three characters two bytes, a rest of one character nothing.
Base64UrlDecode(cs) ==
    IF Len(cs) < 2 THEN <<>>
    ELSE LET v1 == B64Val(cs[1])
             v2 == B64Val(cs[2])
             b1 == v1 * 4 + v2 \div 16
         IN  IF Len(cs) = 2 THEN <<b1>>
             ELSE LET v3 == B64Val(cs[3])
                      b2 == (v2 % 16) * 16 + v3 \div 4
                  IN  IF Len(cs) = 3 THEN <<b1, b2>>
                      ELSE <<b1, b2, (v3 % 4) * 64 + B64Val(cs[4])>>
                           \o Base64UrlDecode(SubSeq(cs, 5, Len(cs)))

\* ------------------------------------------------------------------------
\* Deep link: the s: handler's payload and handleStatelessBatch's decoding
\* ------------------------------------------------------------------------

\* The share payload with the query text not percent-encoded
SharePayloadRawQuery(query, page, filters) ==
    LET l == OrElse(filters.file_lang, Str(<<"-">>))
        y == OrElse(filters.year, Str(<<"-">>))
        q == OrElse(filters.quality, Str(<<"-">>))
    IN  Base64UrlEncode(StringBytes(
            query \o <<"|">> \o NumToString(page) \o <<"|">> \o l.s
            \o <<"|">> \o y.s \o <<"|">> \o q.s))

\* The payload of the 'Share Page' handler:
\* Buffer.from(`${encodeURIComponent(query)}|${page}|${l}|${y}|${q}`).toString('base64url')
SharePayload(query, page, filters) ==
    LET l == OrElse(filters.file_lang, Str(<<"-">>))
        y == OrElse(filters.year, Str(<<"-">>))
        q == OrElse(filters.quality, Str(<<"-">>))
    IN  Base64UrlEncode(StringBytes(
            encodeURIComponent(query) \o <<"|">> \o NumToString(page) \o <<"|">> \o l.s
            \o <<"|">> \o y.s \o <<"|">> \o q.s))

\* decoded.split('|').map(s => decodeURIComponent(s)): [ok, parts]
DecodeParts(fields) ==
    [ok |-> \A i \in 1..Len(fields) : decodeURIComponent(fields[i]).ok,
     parts |-> [i \in 1..Len(fields) |-> decodeURIComponent(fields[i]).s]]

\* The head of handleStatelessBatch: [ok, query, page, filters]; ok = FALSE
\* when decodeURIComponent throws (the catch replies with the error).
StatelessDecode(payload) ==
    LET decoded == BytesString(Base64UrlDecode(payload))
        d == DecodeParts(Split(decoded, "|"))
    IN  IF ~d.ok
        THEN [ok |-> FALSE, query |-> UNDEFINED, page |-> 0,
              filters |-> [file_lang |-> UNDEFINED, year |-> UNDEFINED, quality |-> UNDEFINED]]
        ELSE [ok |-> TRUE,
              query |-> At(d.parts, 0),
              page |-> ParseIntOrZero(At(d.parts, 1)),
              filters |-> [file_lang |-> PlaceholderToNull(At(d.parts, 2)),
                           year |-> PlaceholderToNull(At(d.parts, 3)),
                           quality |-> PlaceholderToNull(At(d.parts, 4))]]

\* ------------------------------------------------------------------------
\* Regular expressions: escapeRegex, new RegExp(pattern, 'i') and test
\* ------------------------------------------------------------------------

\* The characters of the class [.*+?^${}()|[\]\\] that escapeRegex escapes.
RegexMeta == {".", "*", "+", "?", "^", "$", "{", "}", "(", ")", "|", "[", "]", "\\"}

RECURSIVE escapeRegex(_)
\* escapeRegex(string): string.replace(/[.*+?^${}()|[\]\\]/g, '\\$&')
escapeRegex(s) ==
    IF s = <<>> THEN <<>>
    ELSE (IF Head(s) \in RegexMeta THEN <<"\\", Head(s)>> ELSE <<Head(s)>>)
         \o escapeRegex(Tail(s))

\* toLowerCase of each ASCII character, as a table: 'A'..'Z' (codes 65..90)
\* map to the character 32 codes above.
LowerOf ==
    [c \in Range(Ascii) |-> IF CodeOf[c] >= 65 /\ CodeOf[c] <= 90 THEN Ascii[CodeOf[c] + 1] ELSE c]

\* toLowerCase of one ASCII character
LowerChar(c) == LowerOf[c]

\* String.prototype.toLowerCase
toLowerCase(s) == [i \in 1..Len(s) |-> LowerChar(s[i])]

\* \w : letters, digits and the underscore
WordChars ==
    {c \in Range(Ascii) :
        \/ (CodeOf[c] >= 65 /\ CodeOf[c] <= 90)
        \/ (CodeOf[c] >= 97 /\ CodeOf[c] <= 122)
        \/ (CodeOf[c] >= 48 /\ CodeOf[c] <= 57)
        \/ c = "_"}

IsWordChar(c) == c \in WordChars

\* The pattern syntax the model reads: literal characters, \x (an escaped
\* character), \b, '.', a '*' after a character or '.', and '|' between
\* alternatives.  A '*' with nothing to repeat, a lone '(' , ')' or '[' and a
\* trailing backslash make new RegExp throw.  The other operators
\* (+ ? ^ $ { }) do not occur unescaped in the patterns of the model.
RegexThrowing == {"(", ")", "["}

RECURSIVE ParseItems(_)
\* One alternative as a sequence of items [kind, c, star], kind one of
\* "char", "any", "wb"; ok = FALSE when new RegExp throws a SyntaxError.
\* The flag 'i' is applied here: a literal is kept in lower case and is
\* matched against the subject in lower case.
ParseItems(s) ==
    IF s = <<>> THEN [ok |-> TRUE, items |-> <<>>]
    ELSE IF Head(s) = "*" \/ Head(s) \in RegexThrowing THEN [ok |-> FALSE, items |-> <<>>]
    ELSE IF Head(s) = "\\" /\ Len(s) < 2 THEN [ok |-> FALSE, items |-> <<>>]
    ELSE
        LET esc == Head(s) = "\\"
            atom == IF esc /\ s[2] = "b" THEN [kind |-> "wb", c |-> "b", star |-> FALSE]
                    ELSE IF esc THEN [kind |-> "char", c |-> LowerChar(s[2]), star |-> FALSE]
                    ELSE IF Head(s) = "." THEN [kind |-> "any", c |-> ".", star |-> FALSE]
                    ELSE [kind |-> "char", c |-> LowerChar(Head(s)), star |-> FALSE]
            rest == SubSeq(s, IF esc THEN 3 ELSE 2, Len(s))
            starred == rest # <<>> /\ Head(rest) = "*"
            r == ParseItems(IF starred THEN Tail(rest) ELSE rest)
        IN  IF starred /\ atom.kind = "wb" THEN [ok |-> FALSE, items |-> <<>>]
            ELSE [ok |-> r.ok, items |-> <<[atom EXCEPT !.star = starred]>> \o r.items]

RECURSIVE SplitAlternatives(_, _)
\* The alternatives of a pattern: split at every '|' that is not escaped.
SplitAlternatives(s, cur) ==
    IF s = <<>> THEN <<cur>>
    ELSE IF Head(s) = "\\" /\ Len(s) >= 2
    THEN SplitAlternatives(SubSeq(s, 3, Len(s)), cur \o <<s[1], s[2]>>)
    ELSE IF Head(s) = "|" THEN <<cur>> \o SplitAlternatives(Tail(s), <<>>)
    ELSE SplitAlternatives(Tail(s), Append(cur, Head(s)))

\* new RegExp(pattern, 'i'): [ok, alts]; ok = FALSE is the SyntaxError.
NewRegExp(pattern) ==
    LET alts == SplitAlternatives(pattern, <<>>)
    IN  [ok |-> \A i \in 1..Len(alts) : ParseItems(alts[i]).ok,
         alts |-> [i \in 1..Len(alts) |-> ParseItems(alts[i]).items]]

\* Whether position p of s (between s[p-1] and s[p]) is a word boundary
AtWordBoundary(s, p) ==
    LET before == p > 1 /\ IsWordChar(s[p - 1])
        after == p <= Len(s) /\ IsWordChar(s[p])
    IN  before # after

\* c is a character of the subject in lower case
AtomMatches(item, c) == item.kind = "any" \/ item.c = c

RECURSIVE MatchHere(_, _, _, _)
\* Whether items[k..] match s starting at position p
MatchHere(items, k, s, p) ==
    IF k > Len(items) THEN TRUE
    ELSE LET item == items[k]
         IN  IF item.kind = "wb" THEN AtWordBoundary(s, p) /\ MatchHere(items, k + 1, s, p)
             ELSE IF item.star
             THEN \E n \in 0..(Len(s) - p + 1) :
                     /\ \A j \in p..(p + n - 1) : AtomMatches(item, s[j])
                     /\ MatchHere(items, k + 1, s, p + n)
             ELSE /\ p <= Len(s)
                  /\ AtomMatches(item, s[p])
                  /\ MatchHere(items, k + 1, s, p + 1)

\* regex.test(s), the { $regex: ... } condition of the store on a field
RegexTest(re, s) ==
    LET ls == toLowerCase(s)
    IN  \E a \in 1..Len(re.alts) : \E p \in 1..(Len(ls) + 1) : MatchHere(re.alts[a], 1, ls, p)

\* ------------------------------------------------------------------------
\* Feature constants
\* ------------------------------------------------------------------------

\* Object.keys(LANGUAGES)
LanguageCodes == << <<"E", "N">>, <<"H", "I">>, <<"T", "A">>, <<"T", "E">>, <<"M", "L">>, <<"K", "N">>, <<"B", "N">>, <<"M", "R">>, <<"M", "U">> >>

\* LANGUAGES[code], in the order of LanguageCodes
LanguageNames ==
    << <<"E", "n", "g", "l", "i", "s", "h">>,
       <<"H", "i", "n", "d", "i">>,
       <<"T", "a", "m", "i", "l">>,
       <<"T", "e", "l", "u", "g", "u">>,
       <<"M", "a", "l", "a", "y", "a", "l", "a", "m">>,
       <<"K", "a", "n", "n", "a", "d", "a">>,
       <<"B", "e", "n", "g", "a", "l", "i">>,
       <<"M", "a", "r", "a", "t", "h", "i">>,
       <<"M", "u", "l", "t", "i", " ", "A", "u", "d", "i", "o">> >>

\* The tags of the quality menu
QualityTags == << <<"4", "K">>, <<"1", "0", "8", "0", "p">>, <<"7", "2", "0", "p">>, <<"4", "8", "0", "p">>, <<"C", "a", "m">> >>

\* An entry of YEARS (the strings "2000" up to the current year)
YearsSample == << <<"2", "0", "2", "1">> >>

\* ------------------------------------------------------------------------
\* State
\* ------------------------------------------------------------------------

VARIABLES
    \* Stateless session codec: one result message shown to an admin
    shown,      \* [query, page, filters]: the search the message displays
    token,      \* the state string generateKeyboard put into its buttons
    cPhase,     \* "shown", "decoded", "shared" or "opened"
    decoded,    \* what deserializeFilters made of the pressed button's token
    payload,    \* the start payload of the share link (without 'search_')
    opened,     \* what handleStatelessBatch decoded from the payload
    \* Search: calls of searchFiles on a catalog
    catalog,    \* filesCollection: a set of records [id, file_name]
    ingested,   \* the _id of every record, in the order insertOne stored them
    trending,   \* trendingCollection: the count of each key (0: no document)
    sPhase,     \* "idle", or "done" when a call of searchFiles has returned
    sCall,      \* the arguments of that call
    sOut,       \* what searchFiles did and returned
    \* /link: one command message and the reply to it
    lPhase,     \* "idle", or "replied" when the handler has returned
    lIn,        \* [admin, text]: who sent the message, and its text
    lReply,     \* [kind, payload]: the reply, and the start payload after 'get_'
    \* /start: one start message and what bot.start did with it
    startPhase, \* "idle", or "handled" when bot.start has returned
    startIn,    \* the sender's standing, the configuration and ctx.startPayload
    startOut,   \* [handler, arg, saved, referredBy]: the handler reached
    \* Delivery: the messages sent to one chat and their deletion timers
    now,        \* the clock, in seconds
    nextMsg,    \* the message_id the chat gives to the next message sent
    timers,     \* every setTimeout made, in order: [kind, path, handles, armedAt, due, state]
    deleteLog,  \* every deleteMessage attempted, in order: [msg, at, by]
    unhandled,  \* the timers whose callback ended in a rejection nothing handles
    noticeLog,  \* what the callback of each content timer did about its notice:
                \* [by, outcome], outcome "sent", "failed" or "skipped"
    \* Callback buttons: one callback query whose data a client chose
    cbPhase,    \* "idle", or "done" when the handler has returned
    cbIn,       \* [handler, token, query]: the button prefix, the text after it,
                \* and what extractQuery finds in the message
    cbOut,      \* [outcome, searched, page, filters]: what the handler did
    \* batch handlers
    bPhase,      \* "off", "idle", or "done" after one batch was handled
    bIn,         \* the batch request handled last
    bOut,        \* what the handler did with it
    \* one result message and the buttons pressed on it
    uiPhase,     \* "off", "idle" (no result message) or "shown"
    uiTrigger,   \* the user's message: [text, query, attached, admin]
    uiScreen,    \* what the bot's message shows now, with its buttons
    uiLast,      \* what the handler of the last update did
    \* trackSearch: calls in flight on the trending collection
    trendPhase,  \* "off" or "on"
    trendDocs,   \* the documents of the trending collection, in insertion order: [query, count]
    trackers,    \* the calls of trackSearch: [query, pc]
    \* indexFile: calls in flight on the files collection
    indexPhase,  \* "off" or "on"
    fileDocs,    \* the _id of the documents of the files collection, in insertion order
    indexers,    \* the calls of indexFile: [key, pc, sawAbsent, fault, inserted, result]
    deleted,     \* the keys deleteOne has removed a document of
    \* one delivery with the settings of the monetization forward
    promoIn,     \* [made, path, nFiles, nSent, growthLock, channelSet, postSet, premium, forwardOk]
    \* the cache of web search results
    webPhase,    \* "off" or "on"
    webNow,      \* the clock, in minutes
    webSwept,    \* when the sweep of the cache last ran
    webMade,     \* every search that was cached, in order: [timestamp, topics]
    webCache,    \* the search ids webSearchCache holds (positions in webMade)
    webLast,     \* the wsrp: request handled last: [id, page, age, outcome]
    \* maintenance mode and the entry points of a delivery
    gatePhase,       \* "off" or "on"
    IS_MAINTENANCE,  \* the maintenance flag
    bannedUsers,     \* the users whose record has isBanned
    resultHolders,   \* the users whose chat shows a result message with its buttons
    gateLast,        \* the update handled last: [user, entry, maintenance, served]
    \* the files collection under connectDB, indexing and deletion
    catPhase,    \* "off", "boot" before connectDB has run, or "running"
    storeFiles,  \* the documents: [id, ref, size, name, lang], lang naming the field
                 \* that holds the language: "none", "language" or "file_lang"
    catLast,     \* the operation handled last: [op, branch, size]
    \* batchIndexFromChannel
    biPhase,     \* "off", "idle", "running" or "done"
    biIn,        \* [channel, from, ctxMessage]: what the channel holds, the first
                 \* message id, whether ctx.message is defined
    biLoop,      \* [i, cur, indexed, duplicates, errors, stop]
    \* saveUser: calls in flight on the users collection
    refPhase,     \* "off" or "on"
    storedUsers,  \* the user_id of the documents of the users collection
    referrals,    \* the referrals field of each stored user
    refIncs,      \* for each user, the increments made because that user started the bot
    savers        \* the calls of saveUser: [user, referredBy, pc, existing, incremented]

codecVars == <<shown, token, cPhase, decoded, payload, opened>>

searchVars == <<catalog, ingested, trending, sPhase, sCall, sOut>>

linkVars == <<lPhase, lIn, lReply>>

startVars == <<startPhase, startIn, startOut>>

deliveryVars == <<now, nextMsg, timers, deleteLog, unhandled, noticeLog>>

callbackVars == <<cbPhase, cbIn, cbOut>>

batchVars == <<bPhase, bIn, bOut>>

uiVars == <<uiPhase, uiTrigger, uiScreen, uiLast>>

trendVars == <<trendPhase, trendDocs, trackers>>

indexVars == <<indexPhase, fileDocs, indexers, deleted>>

promoVars == <<promoIn>>

webVars == <<webPhase, webNow, webSwept, webMade, webCache, webLast>>

gateVars == <<gatePhase, IS_MAINTENANCE, bannedUsers, resultHolders, gateLast>>

catVars == <<catPhase, storeFiles, catLast>>

biVars == <<biPhase, biIn, biLoop>>

refVars == <<refPhase, storedUsers, referrals, refIncs, savers>>

vars == <<codecVars, searchVars, linkVars, startVars, deliveryVars, callbackVars, batchVars, uiVars, trendVars, indexVars, promoVars, webVars, gateVars, catVars, biVars, refVars>>

\* The variables each group of actions leaves alone
notCodec == <<searchVars, linkVars, startVars, deliveryVars, callbackVars, batchVars, uiVars, trendVars, indexVars, promoVars, webVars, gateVars, catVars, biVars, refVars>>

notSearch == <<codecVars, linkVars, startVars, deliveryVars, callbackVars, batchVars, uiVars, trendVars, indexVars, promoVars, webVars, gateVars, catVars, biVars, refVars>>

notLink == <<codecVars, searchVars, startVars, deliveryVars, callbackVars, batchVars, uiVars, trendVars, indexVars, promoVars, webVars, gateVars, catVars, biVars, refVars>>

notStart == <<codecVars, searchVars, linkVars, deliveryVars, callbackVars, batchVars, uiVars, trendVars, indexVars, promoVars, webVars, gateVars, catVars, biVars, refVars>>

notDelivery == <<codecVars, searchVars, linkVars, startVars, callbackVars, batchVars, uiVars, trendVars, indexVars, promoVars, webVars, gateVars, catVars, biVars, refVars>>

notCallback == <<codecVars, searchVars, linkVars, startVars, deliveryVars, batchVars, uiVars, trendVars, indexVars, promoVars, webVars, gateVars, catVars, biVars, refVars>>

notBatch == <<codecVars, searchVars, linkVars, startVars, deliveryVars, callbackVars, uiVars, trendVars, indexVars, promoVars, webVars, gateVars, catVars, biVars, refVars>>

notUi == <<codecVars, searchVars, linkVars, startVars, deliveryVars, callbackVars, batchVars, trendVars, indexVars, promoVars, webVars, gateVars, catVars, biVars, refVars>>

notTrend == <<codecVars, searchVars, linkVars, startVars, deliveryVars, callbackVars, batchVars, uiVars, indexVars, promoVars, webVars, gateVars, catVars, biVars, refVars>>

notIndex == <<codecVars, searchVars, linkVars, startVars, deliveryVars, callbackVars, batchVars, uiVars, trendVars, promoVars, webVars, gateVars, catVars, biVars, refVars>>

notPromo == <<codecVars, searchVars, linkVars, startVars, deliveryVars, callbackVars, batchVars, uiVars, trendVars, indexVars, webVars, gateVars, catVars, biVars, refVars>>

NoFilters == [file_lang |-> NULL, year |-> NULL, quality |-> NULL]

NoDecoded == [page |-> 0, filters |-> NoFilters]

NoOpened == [ok |-> FALSE, query |-> UNDEFINED, page |-> 0, filters |-> NoFilters]

\* A filter value: absent, or one of the enumerated values
OptionOf(values) == {NULL} \cup {Str(v) : v \in Range(values)}

\* The filters of a valid SearchState
ValidFilters ==
    [file_lang : OptionOf(LanguageCodes), year : OptionOf(YearsSample),
     quality : OptionOf(QualityTags)]

\* The characters query texts are made of: the delimiters of the two token
\* grammars, the escape character and what spells an escape of '|'.
QueryChars == {"|", ":", "%", "7", "C"}

RECURSIVE StringsUpTo(_, _)
\* The strings of at most n characters of cs
StringsUpTo(cs, n) ==
    IF n = 0 THEN {<<>>}
    ELSE LET shorter == StringsUpTo(cs, n - 1)
         IN  shorter \cup {Append(w, c) : w \in shorter, c \in cs}

\* Longer query texts
QuerySamples ==
    { <<"a", " ", "b", "|", "c">>,
      <<"1", "0", "0", "%">>,
      <<"%", "7", "C", "|", "%", "3", "A", ":">>,
      <<"i", "t", "'", "s", " ", "(", "a", ")", " ", "*">> }

\* The non-empty query texts of the codec specification
CodecQueries == (StringsUpTo(QueryChars, MaxQueryLen) \ {<<>>}) \cup QuerySamples

CodecIdle ==
    /\ shown = [query |-> <<>>, page |-> 0, filters |-> NoFilters]
    /\ token = <<>>
    /\ cPhase = "off"
    /\ decoded = NoDecoded
    /\ payload = <<>>
    /\ opened = NoOpened

\* A result message as sendSearchResults and generateKeyboard render it:
\* the buttons carry state = serializeFilters(page, filters).
CodecStart ==
    /\ shown \in [query : CodecQueries, page : 0..MaxPage, filters : ValidFilters]
    /\ token = serializeFilters(shown.page, shown.filters)
    /\ cPhase = "shown"
    /\ decoded = NoDecoded
    /\ payload = <<>>
    /\ opened = NoOpened

\* The head of the p:, fapl: and gall: handlers:
\* const { page, filters } = deserializeFilters(ctx.match[1])
PressStateButton ==
    /\ cPhase = "shown"
    /\ decoded' = deserializeFilters(token)
    /\ cPhase' = "decoded"
    /\ UNCHANGED <<shown, token, payload, opened>>
    /\ UNCHANGED notCodec

\* The s: handler ('Share Page'): the state comes from the button's token,
\* the query from the message the result message replies to.
SharePage ==
    /\ cPhase = "shown"
    /\ LET d == deserializeFilters(token)
       IN  /\ decoded' = d
           /\ payload' = SharePayload(shown.query, d.page, d.filters)
    /\ cPhase' = "shared"
    /\ UNCHANGED <<shown, token, opened>>
    /\ UNCHANGED notCodec

\* handleStatelessBatch(ctx, payload), up to the decoded query, page and
\* filters
OpenShareLink ==
    /\ cPhase = "shared"
    /\ opened' = StatelessDecode(payload)
    /\ cPhase' = "opened"
    /\ UNCHANGED <<shown, token, decoded, payload>>
    /\ UNCHANGED notCodec

CodecNext == PressStateButton \/ SharePage \/ OpenShareLink

\* ------------------------------------------------------------------------
\* Catalog store and search
\* ------------------------------------------------------------------------

\* The last entry of YEARS: for (let y = ...; y >= 2000; y--)
FirstYear == 2000

\* yearsPerPage of showYearMenu
YearsPerPage == 12

\* RESULTS_PER_PAGE
RESULTS_PER_PAGE == 10

\* The fuzzy fallback reads at most this many records: .limit(1000)
FuzzyWorkingSet == 1000

\* Searches are called with the pages 0..MaxSearchPage.
MaxSearchPage == 2

\* A trending counter is counted up to MaxTrend.
MaxTrend == 2

\* The calls of one helper that are in flight together
MaxCallers == 2

\* The web search cache is followed for MaxWebMinutes minutes, in steps of
\* WebStep minutes, over at most MaxWebSearches searches.
MaxWebMinutes == 50

WebStep == 5

MaxWebSearches == 2

\* Cached web results expire after 30 minutes: 30 * 60 * 1000 ms
WebExpiryMinutes == 30

\* The sweep of the cache runs every 15 minutes: setInterval(..., 15 * 60 * 1000)
WebSweepMinutes == 15

\* batchIndexFromChannel starts from a message id of at most MaxFromId
MaxFromId == 12

\* for (let i = 0; i < 1000; i++)
IndexLoopLimit == 1000

\* Progress is shown when (indexed + duplicates) % 10 === 0
ProgressEvery == 10

\* MULTI_KEYWORDS
MULTI_KEYWORDS ==
    << <<"m", "u", "l", "t", "i">>,
       <<"d", "u", "a", "l">>,
       <<"d", "u", "a", "l", " ", "a", "u", "d", "i", "o">>,
       <<"m", "u", "l", "t", "i", " ", "a", "u", "d", "i", "o">>,
       <<"a", "u", "d", "i", "o", "s">>,
       <<"t", "r", "i", "p", "l", "e">>,
       <<"e", "n", "g", "-", "h", "i", "n">>,
       <<"h", "i", "n", "-", "e", "n", "g">> >>

\* A catalog is a set of records [id, file_name]; id stands for the record's
\* _id and its order for the order the store sorts by.
SmallCatalog ==
    { [id |-> 1, file_name |-> <<"D", "u", "n", "e", " ", "2", "0", "2", "1", " ", "7", "2", "0", "p", " ", "H", "i", "n", "d", "i">>],
      [id |-> 2, file_name |-> <<"H", "e", "a", "t", " ", "1", "9", "9", "5", " ", "1", "0", "8", "0", "p">>],
      [id |-> 3, file_name |-> <<"U", "p", ".", "2", "0", "0", "9", ".", "4", "8", "0", "p", ".", "T", "A">>] }

BigCatalog ==
    { [id |-> 1, file_name |-> <<"D", "u", "n", "e", " ", "0", "1", " ", "2", "0", "2", "1", " ", "7", "2", "0", "p", " ", "H", "I">>],
      [id |-> 2, file_name |-> <<"D", "u", "n", "e", " ", "0", "2", " ", "2", "0", "2", "1", " ", "1", "0", "8", "0", "p">>],
      [id |-> 3, file_name |-> <<"D", "u", "n", "e", " ", "0", "3", " ", "2", "0", "2", "1", " ", "7", "2", "0", "p", " ", "H", "I">>],
      [id |-> 4, file_name |-> <<"D", "u", "n", "e", " ", "0", "4", " ", "2", "0", "2", "1", " ", "1", "0", "8", "0", "p">>],
      [id |-> 5, file_name |-> <<"D", "u", "n", "e", " ", "0", "5", " ", "2", "0", "2", "1", " ", "7", "2", "0", "p", " ", "H", "I">>],
      [id |-> 6, file_name |-> <<"D", "u", "n", "e", " ", "0", "6", " ", "2", "0", "2", "1", " ", "1", "0", "8", "0", "p">>],
      [id |-> 7, file_name |-> <<"D", "u", "n", "e", " ", "0", "7", " ", "2", "0", "2", "1", " ", "7", "2", "0", "p", " ", "H", "I">>],
      [id |-> 8, file_name |-> <<"D", "u", "n", "e", " ", "0", "8", " ", "2", "0", "2", "1", " ", "1", "0", "8", "0", "p">>],
      [id |-> 9, file_name |-> <<"D", "u", "n", "e", " ", "0", "9", " ", "2", "0", "2", "1", " ", "7", "2", "0", "p", " ", "H", "I">>],
      [id |-> 10, file_name |-> <<"D", "u", "n", "e", " ", "1", "0", " ", "2", "0", "2", "1", " ", "1", "0", "8", "0", "p">>],
      [id |-> 11, file_name |-> <<"D", "u", "n", "e", " ", "1", "1", " ", "2", "0", "2", "1", " ", "7", "2", "0", "p", " ", "H", "I">>],
      [id |-> 12, file_name |-> <<"H", "e", "a", "t", " ", "1", "9", "9", "5", " ", "7", "2", "0", "p", " ", "D", "u", "a", "l">>] }

Catalogs == {SmallCatalog, BigCatalog}

Min(a, b) == IF a < b THEN a ELSE b

RECURSIVE SortDesc(_)
\* .sort({ _id: -1 }): the records in descending order of _id
SortDesc(files) ==
    IF files = {} THEN <<>>
    ELSE LET top == CHOOSE f \in files : \A g \in files : g.id <= f.id
         IN  <<top>> \o SortDesc(files \ {top})

\* .skip(skip).limit(limit) of a sorted result
SkipLimit(sorted, skip, limit) == SubSeq(sorted, skip + 1, Min(Len(sorted), skip + limit))

\* Array.prototype.slice(from, to) with 0 <= from <= to
Slice(arr, from, to) == SubSeq(arr, from + 1, Min(Len(arr), to))

RECURSIVE Filter(_, _)
\* The elements of a sequence of records that every condition matches
Filter(sorted, conds) ==
    IF sorted = <<>> THEN <<>>
    ELSE (IF \A i \in 1..Len(conds) : RegexTest(conds[i].re, Head(sorted).file_name)
          THEN <<Head(sorted)>> ELSE <<>>)
         \o Filter(Tail(sorted), conds)

\* A find whose searchQuery is the disjunction ($or) of the conditions
FindAny(files, conds) ==
    SelectSeq(SortDesc(files),
              LAMBDA f : conds = <<>>
                         \/ \E i \in 1..Len(conds) : RegexTest(conds[i].re, f.file_name))

\* filesCollection.find(searchQuery).sort({ _id: -1 }): searchQuery is the
\* conjunction ($and) of the conditions, {} when there is none.
Find(files, conds) == Filter(SortDesc(files), conds)

\* One condition { file_name: { $regex: new RegExp(pattern, 'i') } }: source
\* names the input it was built from, inserted is the text that input
\* contributed to the pattern.
Condition(source, pattern, inserted) ==
    [source |-> source, pattern |-> pattern, inserted |-> inserted, re |-> NewRegExp(pattern)]

\* LANGUAGES[code]: [found, name]
LanguageName(code) ==
    IF \E i \in 1..Len(LanguageCodes) : LanguageCodes[i] = code
    THEN [found |-> TRUE,
          name |-> LanguageNames[CHOOSE i \in 1..Len(LanguageCodes) : LanguageCodes[i] = code]]
    ELSE [found |-> FALSE, name |-> <<>>]

\* The condition of the language filter
LanguageCondition(lang) ==
    IF lang = <<"M", "U">>
    THEN Condition("multi", Join(MULTI_KEYWORDS, <<"|">>), <<>>)
    ELSE LET ln == LanguageName(lang)
         IN  IF ln.found
             THEN Condition("lang",
                            escapeRegex(ln.name) \o <<"|", "\\", "b">> \o escapeRegex(lang)
                            \o <<"\\", "b">>,
                            escapeRegex(lang))
             ELSE Condition("lang", escapeRegex(lang), escapeRegex(lang))

\* The condition of the year filter: new RegExp(`\\b${filters.year}\\b`, 'i')
YearCondition(year) ==
    Condition("year", <<"\\", "b">> \o year \o <<"\\", "b">>, year)

\* The conditions searchFiles builds from the query and the filters, in the
\* order it pushes them
BuildConditions(query, filters) ==
    (IF query # <<>> THEN <<Condition("query", escapeRegex(query), escapeRegex(query))>> ELSE <<>>)
    \o (IF Truthy(filters.file_lang) THEN <<LanguageCondition(filters.file_lang.s)>> ELSE <<>>)
    \o (IF Truthy(filters.year) THEN <<YearCondition(filters.year.s)>> ELSE <<>>)
    \o (IF Truthy(filters.quality)
        THEN <<Condition("quality", escapeRegex(filters.quality.s), escapeRegex(filters.quality.s))>>
        ELSE <<>>)

\* A catch block that reports a next page
ErrorResultHasNext ==
    [files |-> <<>>, hasNext |-> TRUE, hasPrev |-> FALSE, currentPage |-> 0, isFuzzy |-> FALSE]

\* What searchFiles returns from its catch block
ErrorResult ==
    [files |-> <<>>, hasNext |-> FALSE, hasPrev |-> FALSE, currentPage |-> 0, isFuzzy |-> FALSE]

\* The _id of each record of a result
Ids(records) == [i \in 1..Len(records) |-> records[i].id]

\* fuse.search(query) over allFiles (Fuse.js, threshold 0.4): a ranked list
\* of some of the records.  The library is not part of the repository; the
\* model lets it return any prefix of allFiles, chosen by n.
FuseSearch(allFiles, query, n) == SubSeq(allFiles, 1, Min(n, Len(allFiles)))

\* trackSearch(query): whether it reaches trendingCollection.updateOne
TrackReachesStore(query) == ~(query = <<>> \/ Len(query) < 3)

\* A fallback guard that a quality filter also closes
FallbackGuardNoQuality(found, query, filters) ==
    /\ Len(found) = 0
    /\ query # <<>>
    /\ ~Truthy(filters.file_lang)
    /\ ~Truthy(filters.year)
    /\ ~Truthy(filters.quality)

\* The guard of the fuzzy fallback:
\* files.length === 0 && query && !filters.file_lang && !filters.year
FallbackGuard(found, query, filters) ==
    /\ Len(found) = 0
    /\ query # <<>>
    /\ ~Truthy(filters.file_lang)
    /\ ~Truthy(filters.year)

\* The guard of the trending update:
\* query && page === 0 && !filters.file_lang && !filters.year && !filters.quality
TrackGuard(query, page, filters) ==
    /\ query # <<>>
    /\ page = 0
    /\ ~Truthy(filters.file_lang)
    /\ ~Truthy(filters.year)
    /\ ~Truthy(filters.quality)

\* A hasNext that is true when the ranked list ends with the page
FuzzyHasNextAtEnd(total, skip) == total >= skip + RESULTS_PER_PAGE

\* hasNext of the fallback path: fuzzyResults.length > skip + RESULTS_PER_PAGE
FuzzyHasNext(total, skip) == total > skip + RESULTS_PER_PAGE

\* A hasPrev that starts one page late
HasPrevAfterFirst(page) == page > 1

\* hasPrev of a result that is not the catch block's
HasPrev(page) == page > 0

\* The first part of searchFiles, up to the exact find's result: the
\* conditions, whether new RegExp threw, and the records found for the page
\* (at most RESULTS_PER_PAGE, hasMore when the store returned one more).
ExactStage(files, query, page, filters) ==
    LET skip == page * RESULTS_PER_PAGE
        conds == BuildConditions(query, filters)
        regexOk == \A i \in 1..Len(conds) : conds[i].re.ok
        results == IF regexOk
                   THEN SkipLimit(Find(files, conds), skip, RESULTS_PER_PAGE + 1)
                   ELSE <<>>
        hasMore == Len(results) > RESULTS_PER_PAGE
    IN  [conds |-> conds, regexOk |-> regexOk, hasMore |-> hasMore,
         found |-> IF hasMore THEN Slice(results, 0, RESULTS_PER_PAGE) ELSE results]

\* The rest of searchFiles, given the exact find's result e
SearchFrom(e, files, query, page, filters, fault, fuseN) ==
    LET skip == page * RESULTS_PER_PAGE
        notCalled == [called |-> FALSE, failed |-> FALSE]
        noTrack == [called |-> FALSE, failed |-> FALSE, done |-> FALSE, key |-> <<>>]
        exactOk == [called |-> TRUE, failed |-> FALSE]
    IN  IF ~e.regexOk
        THEN \* new RegExp throws: the catch block
             [ret |-> ErrorResult, conds |-> e.conds, ranked |-> <<>>, exactFound |-> Len(e.found), exact |-> notCalled,
              fallback |-> notCalled, track |-> noTrack]
        ELSE IF fault = "find"
        THEN [ret |-> ErrorResult, conds |-> e.conds, ranked |-> <<>>, exactFound |-> Len(e.found),
              exact |-> [called |-> TRUE, failed |-> TRUE],
              fallback |-> notCalled, track |-> noTrack]
        ELSE IF FallbackGuard(e.found, query, filters)
        THEN IF fault = "fallback"
             THEN [ret |-> ErrorResult, conds |-> e.conds, ranked |-> <<>>, exactFound |-> Len(e.found), exact |-> exactOk,
                   fallback |-> [called |-> TRUE, failed |-> TRUE], track |-> noTrack]
             ELSE LET allFiles == SkipLimit(SortDesc(files), 0, FuzzyWorkingSet)
                      fuzzyResults == FuseSearch(allFiles, query, fuseN)
                  IN  [ret |-> [files |-> Ids(Slice(fuzzyResults, skip, skip + RESULTS_PER_PAGE)),
                                hasNext |-> FuzzyHasNext(Len(fuzzyResults), skip),
                                hasPrev |-> HasPrev(page),
                                currentPage |-> page,
                                isFuzzy |-> TRUE],
                       conds |-> e.conds, ranked |-> Ids(fuzzyResults), exactFound |-> Len(e.found), exact |-> exactOk,
                       fallback |-> [called |-> TRUE, failed |-> FALSE],
                       track |-> noTrack]
        ELSE [ret |-> [files |-> Ids(e.found), hasNext |-> e.hasMore, hasPrev |-> HasPrev(page),
                       currentPage |-> page, isFuzzy |-> FALSE],
              conds |-> e.conds, ranked |-> <<>>, exactFound |-> Len(e.found), exact |-> exactOk, fallback |-> notCalled,
              track |-> IF TrackGuard(query, page, filters)
                        THEN [called |-> TRUE,
                              failed |-> TrackReachesStore(query) /\ fault = "track",
                              done |-> TrackReachesStore(query) /\ fault # "track",
                              key |-> toLowerCase(query)]
                        ELSE noTrack]

\* searchFiles(query, page, filters) on the catalog `files`.  fault names the
\* store call that fails, if any ("find", "fallback", "track" or "none"), and
\* fuseN chooses the outcome of Fuse.js.  The value is [ret, conds, exactFound,
\* exact, fallback, track, ranked]: ret is the object returned; ranked is
\* the list Fuse.js gave, as the _id of its items; exactFound is the
\* number of records the exact find has for the page; exact, fallback and track
\* say which store calls were made and which failed; track.key is the
\* counter incremented when track.done.
searchFiles(files, query, page, filters, fault, fuseN) ==
    SearchFrom(ExactStage(files, query, page, filters), files, query, page, filters, fault, fuseN)

\* ------------------------------------------------------------------------
\* Search specification: calls of searchFiles on a catalog
\* ------------------------------------------------------------------------

\* A token that no button of the bot carries, as a client can send it in a
\* callback query
CraftedToken == <<"0", ":", "-", ":", ".", "*", ":", "-">>

\* The query texts searchFiles is called with
SearchQueries ==
    { <<>>,
      <<"D", "u", "n", "e">>,
      <<"D", "U", "N", "E">>,
      <<"D", "n", "u", "e">>,
      <<"D", "u">>,
      <<"D", ".", "*">> }

\* The filters searchFiles is called with: absent (null, or undefined when
\* the caller passes no filters), menu values, and the year of CraftedToken.
SearchFilters ==
    [file_lang : {NULL, Str(<<"H", "I">>), Str(<<"M", "U">>)},
     year : {NULL, Str(<<"2", "0", "2", "1">>), deserializeFilters(CraftedToken).filters.year},
     quality : {NULL, Str(<<"7", "2", "0", "p">>)}]
    \cup {[file_lang |-> UNDEFINED, year |-> UNDEFINED, quality |-> UNDEFINED]}

Faults == {"none", "find", "fallback", "track"}

TrendKeys == {toLowerCase(qq) : qq \in SearchQueries}

NoCall == [query |-> <<>>, page |-> 0, filters |-> NoFilters]

NoOut ==
    [ret |-> ErrorResult, conds |-> <<>>, ranked |-> <<>>, exactFound |-> 0,
     exact |-> [called |-> FALSE, failed |-> FALSE],
     fallback |-> [called |-> FALSE, failed |-> FALSE],
     track |-> [called |-> FALSE, failed |-> FALSE, done |-> FALSE, key |-> <<>>]]

\* Orders in which the records of a catalog were stored.  The _id of a
\* record is the file_id Telegram gave the file, so the order of the keys
\* says nothing about the order of ingestion: one order follows the keys,
\* the other stores the record of the smallest key last.
IngestOrders(files) ==
    LET desc == Ids(SortDesc(files))
        asc == [i \in 1..Len(desc) |-> desc[Len(desc) + 1 - i]]
    IN  IF Len(asc) <= 3 THEN {asc, Tail(asc) \o <<Head(asc)>>} ELSE {asc}

SearchIdle ==
    /\ catalog = {}
    /\ ingested = <<>>
    /\ trending = [k \in TrendKeys |-> 0]
    /\ sPhase = "off"
    /\ sCall = NoCall
    /\ sOut = NoOut

SearchStart ==
    /\ catalog \in Catalogs
    /\ ingested \in IngestOrders(catalog)
    /\ trending = [k \in TrendKeys |-> 0]
    /\ sPhase = "idle"
    /\ sCall = NoCall
    /\ sOut = NoOut

\* Every outcome searchFiles can have on the catalog `files`: one per store
\* fault and per answer of Fuse.js
SearchOutcomes(files, query, page, filters) ==
    LET e == ExactStage(files, query, page, filters)
        \* Fuse.js is reached only on the fallback path
        fuseChoices == IF e.regexOk /\ FallbackGuard(e.found, query, filters)
                       THEN 0..Cardinality(files) ELSE {0}
    IN  { SearchFrom(e, files, query, page, filters, fault, fuseN) :
             fault \in Faults, fuseN \in fuseChoices }

\* One call of searchFiles, by any of its callers (sendSearchResults, the
\* gall: and getall_ handlers), with the trending update it makes.
SearchFilesCall ==
    /\ sPhase = "idle"
    /\ \E query \in SearchQueries, page \in 0..MaxSearchPage, filters \in SearchFilters :
          \E out \in SearchOutcomes(catalog, query, page, filters) :
              /\ out.track.done => trending[out.track.key] < MaxTrend
              /\ sCall' = [query |-> query, page |-> page, filters |-> filters]
              /\ sOut' = out
              /\ trending' = IF out.track.done
                             THEN [trending EXCEPT ![out.track.key] = @ + 1]
                             ELSE trending
    /\ sPhase' = "done"
    /\ UNCHANGED <<catalog, ingested>>
    /\ UNCHANGED notSearch

\* The caller has used the result
SearchSettle ==
    /\ sPhase = "done"
    /\ sPhase' = "idle"
    /\ sCall' = NoCall
    /\ sOut' = NoOut
    /\ UNCHANGED <<catalog, ingested, trending>>
    /\ UNCHANGED notSearch

SearchNext == SearchFilesCall \/ SearchSettle

\* ------------------------------------------------------------------------
\* /link: the link generator of the dump channel
\* ------------------------------------------------------------------------

MaxLinkRange == 100

\* parts.pop() leaves the array without its last element
Pop(parts) == SubSeq(parts, 1, Len(parts) - 1)

\* url.replace(/\/$/, '')
StripTrailingSlash(url) ==
    IF url # <<>> /\ url[Len(url)] = "/" THEN SubSeq(url, 1, Len(url) - 1) ELSE url

\* parsePostUrl(url): [ok, chatId, messageId]; ok = FALSE is null.  A url
\* with no segment before the message id makes lastPart undefined, and
\* lastPart.startsWith throws into the catch block, which returns null.
parsePostUrl(url) ==
    LET none == [ok |-> FALSE, chatId |-> <<>>, messageId |-> 0]
    IN  IF ~Truthy(url) THEN none
        ELSE LET parts == Split(StripTrailingSlash(url.s), "/")
                 messageId == parseInt(Str(parts[Len(parts)]))
                 parts1 == Pop(parts)
                 lastPart == IF parts1 = <<>> THEN UNDEFINED ELSE Str(parts1[Len(parts1)])
                 parts2 == IF parts1 = <<>> THEN <<>> ELSE Pop(parts1)
                 indicator == IF parts2 = <<>> THEN UNDEFINED ELSE Str(parts2[Len(parts2)])
             IN  IF messageId.nan THEN none
                 ELSE IF indicator = Str(<<"c">>)
                 THEN [ok |-> TRUE, chatId |-> <<"-", "1", "0", "0">> \o lastPart.s, messageId |-> messageId.n]
                 ELSE IF lastPart.t # "str" THEN none
                 ELSE [ok |-> TRUE,
                       chatId |-> IF lastPart.s # <<>> /\ Head(lastPart.s) = "@"
                                  THEN lastPart.s ELSE <<"@">> \o lastPart.s,
                       messageId |-> messageId.n]

RECURSIVE JsonEscape(_)
\* The characters of a string as JSON.stringify writes them between quotes
JsonEscape(s) ==
    IF s = <<>> THEN <<>>
    ELSE (IF Head(s) \in {"\"", "\\"} THEN <<"\\", Head(s)>> ELSE <<Head(s)>>)
         \o JsonEscape(Tail(s))

\* JSON.stringify({ c, s, e }) with c a string and s, e integers
DumpJson(c, s, e) ==
    <<"{", "\"", "c", "\"", ":", "\"">> \o JsonEscape(c) \o <<"\"", ",", "\"", "s", "\"", ":">> \o NumToString(s) \o <<",", "\"", "e", "\"", ":">> \o NumToString(e) \o <<"}">>

\* Buffer.from(data).toString('base64url')
DumpPayload(c, s, e) == Base64UrlEncode(StringBytes(DumpJson(c, s, e)))

\* A range check that lets one more id through
RangeTooLargeLoose(startId, finalEndId) == finalEndId - startId > MaxLinkRange + 1

\* finalEndId - startId > 100
RangeTooLarge(startId, finalEndId) == finalEndId - startId > MaxLinkRange

\* The reply of the /link handler to the message `text` of a sender who is
\* an admin or not: [kind, payload]
LinkCommand(admin, text) ==
    LET args == Tail(Split(text, " "))
        startInfo == parsePostUrl(At(args, 0))
        endInfo == parsePostUrl(At(args, 1))
        endId == IF Truthy(At(args, 1)) /\ endInfo.ok THEN endInfo.messageId
                 ELSE startInfo.messageId
        startId == IF startInfo.messageId < endId THEN startInfo.messageId ELSE endId
        finalEndId == IF startInfo.messageId > endId THEN startInfo.messageId ELSE endId
    IN  IF ~admin THEN [kind |-> "ignored", payload |-> <<>>]
        ELSE IF Len(args) = 0 THEN [kind |-> "usage", payload |-> <<>>]
        ELSE IF ~startInfo.ok THEN [kind |-> "invalid", payload |-> <<>>]
        ELSE IF RangeTooLarge(startId, finalEndId) THEN [kind |-> "tooLarge", payload |-> <<>>]
        ELSE [kind |-> "link", payload |-> DumpPayload(startInfo.chatId, startId, finalEndId)]

RECURSIVE ReadJsonString(_, _)
\* Reads a JSON string after its opening quote: [ok, val, rest]
ReadJsonString(s, acc) ==
    IF s = <<>> THEN [ok |-> FALSE, val |-> acc, rest |-> <<>>]
    ELSE IF Head(s) = "\"" THEN [ok |-> TRUE, val |-> acc, rest |-> Tail(s)]
    ELSE IF Head(s) = "\\"
    THEN IF Len(s) >= 2 THEN ReadJsonString(SubSeq(s, 3, Len(s)), Append(acc, s[2]))
         ELSE [ok |-> FALSE, val |-> acc, rest |-> <<>>]
    ELSE ReadJsonString(Tail(s), Append(acc, Head(s)))

\* s begins with the text `lit`
StartsWith(s, lit) == Len(s) >= Len(lit) /\ SubSeq(s, 1, Len(lit)) = lit

\* s without its first n characters
Drop(s, n) == SubSeq(s, n + 1, Len(s))

\* Reads a JSON integer: [ok, n, rest]
ReadJsonInt(s) ==
    LET neg == s # <<>> /\ Head(s) = "-"
        s1 == IF neg THEN Tail(s) ELSE s
        ds == DigitPrefix(s1)
    IN  [ok |-> ds # <<>>,
         n |-> IF neg THEN -DigitsValue(ds, 0) ELSE DigitsValue(ds, 0),
         rest |-> Drop(s1, Len(ds))]

\* A JavaScript number, kept as the text String(n) gives
Num(n) == [t |-> "num", s |-> NumToString(n)]

\* Reads one JSON value, a string, an integer or null: [ok, val, rest]
ReadJsonValue(s) ==
    IF s # <<>> /\ Head(s) = "\""
    THEN LET r == ReadJsonString(Tail(s), <<>>)
         IN  [ok |-> r.ok, val |-> Str(r.val), rest |-> r.rest]
    ELSE IF StartsWith(s, <<"n", "u", "l", "l">>)
    THEN [ok |-> TRUE, val |-> NULL, rest |-> Drop(s, Len(<<"n", "u", "l", "l">>))]
    ELSE LET r == ReadJsonInt(s)
         IN  [ok |-> r.ok, val |-> Num(r.n), rest |-> r.rest]

RECURSIVE ReadJsonMembers(_, _)
\* Reads the members of a JSON object after its opening brace, up to the
\* closing brace that ends the text: [ok, members], each member [key, val]
ReadJsonMembers(s, acc) ==
    LET bad == [ok |-> FALSE, members |-> acc]
    IN  IF s = <<>> \/ Head(s) # "\"" THEN bad
        ELSE LET k == ReadJsonString(Tail(s), <<>>)
             IN  IF ~k.ok \/ k.rest = <<>> \/ Head(k.rest) # ":" THEN bad
                 ELSE LET v == ReadJsonValue(Tail(k.rest))
                          all == Append(acc, [key |-> k.val, val |-> v.val])
                      IN  IF ~v.ok \/ v.rest = <<>> THEN bad
                          ELSE IF v.rest = <<"}">> THEN [ok |-> TRUE, members |-> all]
                          ELSE IF Head(v.rest) = "," THEN ReadJsonMembers(Tail(v.rest), all)
                          ELSE bad

\* JSON.parse of a text without white space that is an object of strings,
\* integers and nulls: [ok, members]; ok = FALSE stands for a SyntaxError,
\* and for a value that is no object (reading data.c of null throws, and a
\* number or a string has no s and no e)
JsonParseObject(text) ==
    IF text = <<"{", "}">> THEN [ok |-> TRUE, members |-> <<>>]
    ELSE IF text # <<>> /\ Head(text) = "{" THEN ReadJsonMembers(Tail(text), <<>>)
    ELSE [ok |-> FALSE, members |-> <<>>]

\* data[key]: the value of the last member of that key, or undefined
Member(members, key) ==
    LET at == {i \in 1..Len(members) : members[i].key = key}
    IN  IF at = {} THEN UNDEFINED
        ELSE members[CHOOSE i \in at : \A k \in at : k <= i].val

\* The string parseInt reads from its argument: String(v)
ToText(v) == IF v.t = "num" THEN Str(v.s) ELSE v

\* A decoder without the isNaN check: a missing or non-numeric id reads as 0
DumpDecodeNoNaNCheck(startPayload) ==
    LET data == JsonParseObject(BytesString(Base64UrlDecode(startPayload)))
        c == Member(data.members, <<"c">>)
        first == parseInt(ToText(Member(data.members, <<"s">>)))
        last == parseInt(ToText(Member(data.members, <<"e">>)))
    IN  IF ~data.ok
        THEN [ok |-> FALSE, c |-> <<>>, s |-> 0, e |-> 0]
        ELSE [ok |-> TRUE, c |-> IF c.t = "str" THEN c.s ELSE <<>>,
              s |-> IF first.nan THEN 0 ELSE first.n, e |-> IF last.nan THEN 0 ELSE last.n]

\* The head of handleDumpBatch: JSON.parse of the decoded payload, then
\* data.c, parseInt(data.s), parseInt(data.e); [ok, c, s, e], ok = FALSE
\* when JSON.parse throws or when start or end is NaN ('Invalid IDs').
DumpDecode(startPayload) ==
    LET data == JsonParseObject(BytesString(Base64UrlDecode(startPayload)))
        c == Member(data.members, <<"c">>)
        first == parseInt(ToText(Member(data.members, <<"s">>)))
        last == parseInt(ToText(Member(data.members, <<"e">>)))
    IN  IF ~data.ok \/ first.nan \/ last.nan
        THEN [ok |-> FALSE, c |-> <<>>, s |-> 0, e |-> 0]
        ELSE [ok |-> TRUE, c |-> IF c.t = "str" THEN c.s ELSE <<>>, s |-> first.n, e |-> last.n]

\* Message ids of the posts an admin links to
LinkIds == {1, 2, MaxLinkRange, MaxLinkRange + 1, MaxMsgId}

\* Post urls: of a private channel, of a public one (with a trailing slash),
\* one whose last segment is no number, and a bare number
LinkUrls ==
    {<<"h", "t", "t", "p", "s", ":", "/", "/", "t", ".", "m", "e", "/", "c", "/", "1", "2", "3", "4", "5", "/">> \o NatToString(i) : i \in LinkIds}
    \cup {<<"h", "t", "t", "p", "s", ":", "/", "/", "t", ".", "m", "e", "/", "d", "u", "m", "p", "c", "h", "a", "n", "/">> \o NatToString(i) \o <<"/">> : i \in LinkIds}
    \cup {<<"h", "t", "t", "p", "s", ":", "/", "/", "t", ".", "m", "e", "/", "c", "/", "1", "2", "3", "4", "5", "/">> \o <<"a", "b", "c">>, <<"7">>}

\* Texts of /link messages: no argument, one url, two urls, two spaces
LinkTexts ==
    {<<"/", "l", "i", "n", "k">>}
    \cup {<<"/", "l", "i", "n", "k">> \o <<" ">> \o u : u \in LinkUrls}
    \cup {<<"/", "l", "i", "n", "k">> \o <<" ">> \o u \o <<" ">> \o v : u \in LinkUrls, v \in LinkUrls}
    \cup {<<"/", "l", "i", "n", "k">> \o <<" ", " ">> \o u : u \in LinkUrls}

NoLinkIn == [admin |-> FALSE, text |-> <<>>]

NoLinkReply == [kind |-> "none", payload |-> <<>>]

LinkIdle ==
    /\ lPhase = "off"
    /\ lIn = NoLinkIn
    /\ lReply = NoLinkReply

LinkStart ==
    /\ lPhase = "idle"
    /\ lIn = NoLinkIn
    /\ lReply = NoLinkReply

\* bot.command('link') handles one message
LinkHandle ==
    /\ lPhase = "idle"
    /\ \E admin \in BOOLEAN, text \in LinkTexts :
          /\ lIn' = [admin |-> admin, text |-> text]
          /\ lReply' = LinkCommand(admin, text)
    /\ lPhase' = "replied"
    /\ UNCHANGED notLink

\* The next message
LinkSettle ==
    /\ lPhase = "replied"
    /\ lPhase' = "idle"
    /\ lIn' = NoLinkIn
    /\ lReply' = NoLinkReply
    /\ UNCHANGED notLink

LinkNext == LinkHandle \/ LinkSettle

\* ------------------------------------------------------------------------
\* /start: checkUser, saveUser, force subscribe, and the deep-link routes
\* ------------------------------------------------------------------------

\* checkUser(ctx): "ok", or the reply that ends the handler
checkUser(admin, maintenance, banned) ==
    IF admin THEN "ok"
    ELSE IF maintenance THEN "maintenance"
    ELSE IF banned THEN "banned"
    ELSE "ok"

\* isSubscribed(userId): true without a force-subscribe channel, else
\* whether getChatMember reports a member (an error counts as not a member)
isSubscribed(fsubSet, member) == IF ~fsubSet THEN TRUE ELSE member

\* startPayload && startPayload.startsWith(prefix)
HasPrefix(startPayload, prefix) == Truthy(startPayload) /\ StartsWith(startPayload.s, prefix)

\* The last part of bot.start: the handler a payload is routed to, with its
\* argument (the payload without its prefix)
StartRoute(startPayload) ==
    IF HasPrefix(startPayload, <<"f", "i", "l", "e", "_">>)
    THEN [handler |-> "sendFile", arg |-> Drop(startPayload.s, Len(<<"f", "i", "l", "e", "_">>))]
    ELSE IF HasPrefix(startPayload, <<"g", "e", "t", "_">>)
    THEN [handler |-> "handleDumpBatch", arg |-> Drop(startPayload.s, Len(<<"g", "e", "t", "_">>))]
    ELSE [handler |-> "showWelcome", arg |-> <<>>]

\* referredBy: parseInt of the payload after 'ref_', or null ([nan, n] with
\* set = FALSE when there is no referral payload)
ReferredBy(startPayload) ==
    IF HasPrefix(startPayload, <<"r", "e", "f", "_">>)
    THEN LET r == parseInt(Str(Drop(startPayload.s, Len(<<"r", "e", "f", "_">>))))
         IN  [set |-> TRUE, nan |-> r.nan, n |-> r.n]
    ELSE [set |-> FALSE, nan |-> FALSE, n |-> 0]

\* bot.start for one message: [handler, arg, saved, referredBy]
StartCommand(in) ==
    LET check == checkUser(in.admin, in.maintenance, in.banned)
        none == [set |-> FALSE, nan |-> FALSE, n |-> 0]
    IN  IF check # "ok"
        THEN [handler |-> check, arg |-> <<>>, saved |-> FALSE, referredBy |-> none]
        ELSE IF ~isSubscribed(in.fsubSet, in.member) /\ in.fsubSet
        THEN [handler |-> "joinChannel", arg |-> <<>>, saved |-> TRUE,
              referredBy |-> ReferredBy(in.startPayload)]
        ELSE LET route == StartRoute(in.startPayload)
             IN  [handler |-> route.handler, arg |-> route.arg, saved |-> TRUE,
                  referredBy |-> ReferredBy(in.startPayload)]

\* The searches whose 'Share Page' link is opened
SharedSearches ==
    { [query |-> <<"D", "u", "n", "e">>, page |-> 0, filters |-> NoFilters],
      [query |-> <<"a", " ", "b", "|", "c">>, page |-> 1,
       filters |-> [file_lang |-> Str(<<"H", "I">>), year |-> NULL, quality |-> Str(<<"7", "2", "0", "p">>)]] }

\* Start payloads: none, a referral, a file, a dump link, share links, other
StartPayloads ==
    { Str(<<>>), Str(<<"r", "e", "f", "_">> \o <<"7">>), Str(<<"r", "e", "f", "_">> \o <<"x">>), Str(<<"f", "i", "l", "e", "_">> \o <<"A", "b", "1">>),
      Str(<<"g", "e", "t", "_">> \o DumpPayload(<<"-", "1", "0", "0", "1", "2", "3", "4", "5">>, 1, 3)), Str(<<"h", "e", "l", "l", "o">>) }
    \cup { Str(<<"s", "e", "a", "r", "c", "h", "_">> \o SharePayload(ss.query, ss.page, ss.filters)) : ss \in SharedSearches }

StartInputs ==
    [admin : BOOLEAN, maintenance : BOOLEAN, banned : BOOLEAN, fsubSet : BOOLEAN,
     member : BOOLEAN, startPayload : StartPayloads]

NoStartIn ==
    [admin |-> FALSE, maintenance |-> FALSE, banned |-> FALSE, fsubSet |-> FALSE,
     member |-> FALSE, startPayload |-> UNDEFINED]

NoStartOut ==
    [handler |-> "none", arg |-> <<>>, saved |-> FALSE,
     referredBy |-> [set |-> FALSE, nan |-> FALSE, n |-> 0]]

StartIdle ==
    /\ startPhase = "off"
    /\ startIn = NoStartIn
    /\ startOut = NoStartOut

StartBegin ==
    /\ startPhase = "idle"
    /\ startIn = NoStartIn
    /\ startOut = NoStartOut

\* bot.start handles one /start message
StartHandle ==
    /\ startPhase = "idle"
    /\ \E in \in StartInputs :
          /\ startIn' = in
          /\ startOut' = StartCommand(in)
    /\ startPhase' = "handled"
    /\ UNCHANGED notStart

\* The next message
StartSettle ==
    /\ startPhase = "handled"
    /\ startPhase' = "idle"
    /\ startIn' = NoStartIn
    /\ startOut' = NoStartOut
    /\ UNCHANGED notStart

StartNext == StartHandle \/ StartSettle

\* ------------------------------------------------------------------------
\* Delivery: sendFile, gall:, getall_, handleStatelessBatch, handleDumpBatch
\* and the setTimeout callbacks they arm
\* ------------------------------------------------------------------------

AUTO_DELETE_SECONDS == 3600

PromoDeleteSeconds == 300

DeliveryPaths == {"sendFile", "gall", "getall", "stateless", "dump"}

\* The paths that forward the monetization post before the delivery
PromoPaths == {"sendFile", "dump"}

\* The delay, in seconds, after which the 'deleted' notice is deleted
NoticeDelay(path) ==
    CASE path = "gall" -> 5
      [] path = "dump" -> 8
      [] OTHER -> 10

\* A content timer that fires when the promotional one does
TicketDueEarly(armedAt) == armedAt + PromoDeleteSeconds

\* setTimeout(..., AUTO_DELETE_SECONDS * 1000): when the callback is due
TicketDue(armedAt) == armedAt + AUTO_DELETE_SECONDS

\* Whether the path gets as far as sending the files: sendFile needs the
\* record (nFiles = 1), the search paths a non-empty result; the dump batch
\* copies its range whatever it holds
ReachesSends(path, nFiles) == path = "dump" \/ nFiles > 0

\* Whether the path arms the deletion timer after its sends: sendFile when
\* its one send succeeded (a failure goes to the catch block), gall:, the
\* stateless batch and the dump batch when sentMessages is not empty,
\* getall_ always
ArmsTimer(path, nFiles, nSent) ==
    /\ ReachesSends(path, nFiles)
    /\ \/ path = "getall"
       \/ nSent > 0

\* A forward that is made for premium users as well
PromoForwardedToPremium(path, nFiles, growthLock, channelSet, postSet, premium, forwardOk) ==
    /\ path \in PromoPaths
    /\ ReachesSends(path, nFiles)
    /\ growthLock /\ channelSet /\ postSet
    /\ forwardOk

\* The forward of the monetization post: made when growth lock is on, a
\* channel and a post id are set, the user is not premium; forwardOk says
\* whether forwardMessage succeeded
PromoForwarded(path, nFiles, growthLock, channelSet, postSet, premium, forwardOk) ==
    /\ path \in PromoPaths
    /\ ReachesSends(path, nFiles)
    /\ growthLock /\ channelSet /\ postSet
    /\ ~premium
    /\ forwardOk

\* The message ids first, first + 1, ..., n of them
IdsFrom(first, n) == [i \in 1..n |-> first + i - 1]

ArmedTimers == {i \in DOMAIN timers : timers[i].state = "armed"}

\* The earliest due time of the armed timers
NextDue == CHOOSE d \in {timers[i].due : i \in ArmedTimers} :
               \A i \in ArmedTimers : d <= timers[i].due

DeliveryIdle ==
    /\ now = 0
    /\ nextMsg = 0
    /\ timers = <<>>
    /\ deleteLog = <<>>
    /\ unhandled = {}
    /\ noticeLog = {}

DeliveryStart ==
    /\ now = 0
    /\ nextMsg = 1
    /\ timers = <<>>
    /\ deleteLog = <<>>
    /\ unhandled = {}
    /\ noticeLog = {}

\* The timers one run of a delivery handler arms, the first message it
\* sends having the id first: the timer of the monetization post when it
\* was forwarded, then the content timer on the nSent messages sent
DeliveryTimers(path, nFiles, promo, nSent, first) ==
    LET promoTimers ==
            IF promo
            THEN <<[kind |-> "promo", path |-> path, handles |-> <<first>>,
                    armedAt |-> now, due |-> now + PromoDeleteSeconds,
                    state |-> "armed"]>>
            ELSE <<>>
        firstSent == first + Len(promoTimers)
        sent == IF ReachesSends(path, nFiles) THEN nSent ELSE 0
        contentTimers ==
            IF ArmsTimer(path, nFiles, sent)
            THEN <<[kind |-> "content", path |-> path,
                    handles |-> IdsFrom(firstSent, sent),
                    armedAt |-> now, due |-> TicketDue(now),
                    state |-> "armed"]>>
            ELSE <<>>
    IN  [timers |-> promoTimers \o contentTimers, nextMsg |-> firstSent + sent]

\* One run of a delivery handler: the result has nFiles items (for sendFile,
\* 1 when findOne found the record), nSent of the sends succeed
Deliver ==
    /\ Len(timers) + 2 <= MaxTimers
    /\ now <= LastDelivery
    /\ \E path \in DeliveryPaths, nFiles \in 0..MaxBatch, promo \in BOOLEAN :
          /\ path = "sendFile" => nFiles <= 1
          /\ promo => \E gl, ch, po, pr, fo \in BOOLEAN :
                          PromoForwarded(path, nFiles, gl, ch, po, pr, fo)
          /\ \E nSent \in 0..nFiles :
                LET d == DeliveryTimers(path, nFiles, promo, nSent, nextMsg)
                IN  /\ timers' = timers \o d.timers
                    /\ nextMsg' = d.nextMsg
                    /\ Len(timers') > Len(timers)
    /\ UNCHANGED <<now, deleteLog, unhandled, noticeLog>>
    /\ UNCHANGED notDelivery

\* Time passes, up to the next timer that is due
Advance ==
    /\ \E t \in {now + TickStep} \cup {timers[i].due : i \in ArmedTimers} :
          /\ t > now
          /\ ArmedTimers # {} => t <= NextDue
          /\ ArmedTimers = {} => t <= LastDelivery
          /\ now' = t
    /\ UNCHANGED <<nextMsg, timers, deleteLog, unhandled, noticeLog>>
    /\ UNCHANGED notDelivery

\* Attempts of a callback that reads one handle list shared by the chat:
\* whichever timer fires, it deletes the handles of the first ticket
AttemptsOnSharedList(i) ==
    [k \in 1..Len(timers[1].handles) |-> [msg |-> timers[1].handles[k], at |-> now, by |-> i]]

\* The deleteMessage attempts of timer i, one for each of its handles
Attempts(i) ==
    [k \in 1..Len(timers[i].handles) |-> [msg |-> timers[i].handles[k], at |-> now, by |-> i]]

\* Whether a failed send of the 'deleted' notice leaves the callback as a
\* rejection: sendFile awaits it inside its try block, whose catch is empty;
\* getall_, gall:, the stateless batch and the dump batch await
\* sendMessage outside any try block of their async callback
NoticeFailureEscapes(path) == path # "sendFile"

\* Whether the callback of a content timer leaves before it sends the
\* notice: in sendFile deleteMessage and the notice share one try block, so
\* a deleteMessage that fails skips the notice; the batch paths give each
\* deleteMessage a try block of its own
NoticeSkipped(path, deleteOk) == path = "sendFile" /\ ~deleteOk

\* The callback of a content timer runs: it attempts to delete each handle
\* of its ticket, then sends the 'deleted' notice and arms the notice's own
\* timer.  In sendFile a failed deleteMessage skips the notice (one try
\* block); in the batch paths each deleteMessage has its own try block.  In
\* every path a failed send of the notice arms nothing.
FireContent ==
    /\ \E i \in ArmedTimers, deleteOk \in BOOLEAN, noticeOk \in BOOLEAN :
          /\ timers[i].kind = "content"
          /\ timers[i].due = now
          /\ LET skipped == NoticeSkipped(timers[i].path, deleteOk)
                 noticeSent == noticeOk /\ ~skipped
                 noticeTimers ==
                     IF noticeSent
                     THEN <<[kind |-> "notice", path |-> timers[i].path,
                             handles |-> <<nextMsg>>, armedAt |-> now,
                             due |-> now + NoticeDelay(timers[i].path), state |-> "armed"]>>
                     ELSE <<>>
             IN  /\ timers' = [timers EXCEPT ![i].state = "fired"] \o noticeTimers
                 /\ noticeLog' = noticeLog \cup
                        {[by |-> i, outcome |-> IF skipped THEN "skipped"
                                                ELSE IF noticeOk THEN "sent" ELSE "failed"]}
                 /\ nextMsg' = nextMsg + Len(noticeTimers)
          /\ deleteLog' = deleteLog \o Attempts(i)
          /\ unhandled' = IF ~noticeOk /\ NoticeFailureEscapes(timers[i].path)
                          THEN unhandled \cup {i} ELSE unhandled
    /\ UNCHANGED now
    /\ UNCHANGED notDelivery

\* The callback of a promotional or notice timer runs: one deleteMessage,
\* its failure ignored
FireOther ==
    /\ \E i \in ArmedTimers :
          /\ timers[i].kind # "content"
          /\ timers[i].due = now
          /\ timers' = [timers EXCEPT ![i].state = "fired"]
          /\ deleteLog' = deleteLog \o Attempts(i)
    /\ UNCHANGED <<now, nextMsg, unhandled, noticeLog>>
    /\ UNCHANGED notDelivery

DeliveryNext == Deliver \/ Advance \/ FireContent \/ FireOther

\* ------------------------------------------------------------------------
\* Callback buttons p:, fapl:, gall:, s: on any callback data
\* ------------------------------------------------------------------------

CallbackHandlers == {"p", "fapl", "gall", "s"}

\* The p:, fapl:, gall: and s: handlers on the token after the prefix, with
\* the query extractQuery found (null when the message shows none):
\* [outcome, searched, page, filters].  searched says whether searchFiles
\* is called with the page and filters of the token.
CallbackCommand(handler, data, query) ==
    LET d == deserializeFilters(data)
    IN  IF ~Truthy(query)
        THEN [outcome |-> "queryLost", searched |-> FALSE, page |-> d.page, filters |-> d.filters]
        ELSE IF handler = "s"
        THEN [outcome |-> "link", searched |-> FALSE, page |-> d.page, filters |-> d.filters]
        ELSE IF handler = "gall"
        THEN [outcome |-> "deliver", searched |-> TRUE, page |-> d.page, filters |-> d.filters]
        ELSE [outcome |-> "results", searched |-> TRUE, page |-> d.page, filters |-> d.filters]

\* Callback data after the prefix: tokens the bot rendered, truncated ones,
\* ones whose first field is no number or a negative one, one with a field
\* too many
CallbackTokens ==
    { <<"0", ":", "-", ":", "-", ":", "-">>, <<"2", ":", "H", "I", ":", "2", "0", "2", "1", ":", "7", "2", "0", "p">>,
      <<"1">>, <<"1", ":", "H", "I">>, <<"3", ":", "-", ":", "-">>,
      <<"x", ":", "-", ":", "-", ":", "-">>, <<":", "H", "I", ":", "-", ":", "-">>, <<"-", "1", ":", "-", ":", "-", ":", "-">>, <<"1", "x", ":", "-", ":", "-", ":", "-">>, <<"a", "b", "c">>,
      <<"1", ":", "-", ":", "-", ":", "-", ":", "z", "z">> }

\* What extractQuery returns: null, or the text of the replied-to message
CallbackQueries == {NULL, Str(<<>>), Str(<<"D", "u", "n", "e">>)}

NoCallbackIn == [handler |-> "none", token |-> <<>>, query |-> NULL]

NoCallbackOut == [outcome |-> "none", searched |-> FALSE, page |-> 0, filters |-> NoFilters]

CallbackIdle ==
    /\ cbPhase = "off"
    /\ cbIn = NoCallbackIn
    /\ cbOut = NoCallbackOut

CallbackStart ==
    /\ cbPhase = "idle"
    /\ cbIn = NoCallbackIn
    /\ cbOut = NoCallbackOut

\* One callback query is handled
CallbackHandle ==
    /\ cbPhase = "idle"
    /\ \E handler \in CallbackHandlers, data \in CallbackTokens, query \in CallbackQueries :
          /\ cbIn' = [handler |-> handler, token |-> data, query |-> query]
          /\ cbOut' = CallbackCommand(handler, data, query)
    /\ cbPhase' = "done"
    /\ UNCHANGED notCallback

\* The next callback query
CallbackSettle ==
    /\ cbPhase = "done"
    /\ cbPhase' = "idle"
    /\ cbIn' = NoCallbackIn
    /\ cbOut' = NoCallbackOut
    /\ UNCHANGED notCallback

CallbackNext == CallbackHandle \/ CallbackSettle

\* ------------------------------------------------------------------------
\* Batch handlers: handleDumpBatch and gall:, and the loop that sends the items
\* ------------------------------------------------------------------------

NoSends == [attempted |-> <<>>, sentMessages |-> <<>>]

\* A loop that stops at the first send that throws
SendLoopStopsAtFailure(items, failing, acc) ==
    LET bad == {i \in 1..Len(items) : items[i] \in failing}
        upTo == IF bad = {} THEN Len(items) ELSE CHOOSE i \in bad : \A k \in bad : i <= k
    IN  [attempted |-> acc.attempted \o SubSeq(items, 1, upTo),
         sentMessages |-> acc.sentMessages \o SubSeq(items, 1, IF bad = {} THEN upTo ELSE upTo - 1)]

\* The loop over the items of a batch: each item is sent inside its own
\* try block; a send that succeeds pushes its message onto sentMessages, one
\* that throws is caught and the loop goes on.  failing is the set of items
\* whose send throws; attempted records the sends made, in order.
SendLoop(items, failing, acc) ==
    LET Sent(item) == item \notin failing
    IN  [attempted |-> acc.attempted \o items,
         sentMessages |-> acc.sentMessages \o SelectSeq(items, Sent)]

\* The message ids of for (let mid = start; mid <= end; mid++)
DumpRange(start, end) == IdsFrom(start, IF end >= start THEN end - start + 1 ELSE 0)

\* handleDumpBatch(ctx, payload): fsubSet and member are what isSubscribed
\* sees, promoOk whether the monetization post is forwarded, replyOk whether
\* the 'Fetching your files' reply is sent, failing the message ids whose
\* copyMessage throws.  [decoded, replies, attempted, sentMessages, armed,
\* promo]
handleDumpBatch(startPayload, fsubSet, member, promoOk, replyOk, failing) ==
    LET data == DumpDecode(startPayload)
        loop == SendLoop(DumpRange(data.s, data.e), failing, NoSends)
        stop(replies) == [decoded |-> data.ok, replies |-> replies, attempted |-> <<>>,
                          sentMessages |-> <<>>, armed |-> FALSE, promo |-> FALSE]
    IN  IF ~data.ok \/ ~replyOk THEN stop(<<"invalid">>)
        ELSE IF ~isSubscribed(fsubSet, member) /\ fsubSet THEN stop(<<"fetching", "join">>)
        ELSE [decoded |-> TRUE,
              replies |-> IF loop.sentMessages = <<>> THEN <<"fetching", "noFiles">> ELSE <<"fetching">>,
              attempted |-> loop.attempted,
              sentMessages |-> loop.sentMessages,
              armed |-> loop.sentMessages # <<>>,
              promo |-> promoOk]

\* The gall: handler from its search result on: files are the records of the
\* page in order, failing those whose send throws
GallBatch(files, failing) ==
    LET loop == SendLoop(files, failing, NoSends)
    IN  [decoded |-> TRUE,
         replies |-> IF files = <<>> THEN <<"noFiles">> ELSE <<"sending">>,
         attempted |-> loop.attempted,
         sentMessages |-> loop.sentMessages,
         armed |-> loop.sentMessages # <<>>,
         promo |-> FALSE]

\* Payloads that do not decode to a range:
\*   {"c":"-10012345","s":1}  (no end id)
\*   {"c":"-10012345","s":"abc","e":2}  (a start id that is no number)
\*   {"c":"-10012345","s":1,"e":null}  (a null end id)
\*   {"c":"-10012345","s":1,"e":3  (a truncated record)
\*   hello  (no JSON)
\*   ''  (an empty payload)
\*   {}  (an empty record)
UndecodablePayloads ==
    {<<"e", "y", "J", "j", "I", "j", "o", "i", "L", "T", "E", "w", "M", "D", "E", "y", "M", "z", "Q", "1", "I", "i", "w", "i", "c", "y", "I", "6", "M", "X", "0">>,
     <<"e", "y", "J", "j", "I", "j", "o", "i", "L", "T", "E", "w", "M", "D", "E", "y", "M", "z", "Q", "1", "I", "i", "w", "i", "c", "y", "I", "6", "I", "m", "F", "i", "Y", "y", "I", "s", "I", "m", "U", "i", "O", "j", "J", "9">>,
     <<"e", "y", "J", "j", "I", "j", "o", "i", "L", "T", "E", "w", "M", "D", "E", "y", "M", "z", "Q", "1", "I", "i", "w", "i", "c", "y", "I", "6", "M", "S", "w", "i", "Z", "S", "I", "6", "b", "n", "V", "s", "b", "H", "0">>,
     <<"e", "y", "J", "j", "I", "j", "o", "i", "L", "T", "E", "w", "M", "D", "E", "y", "M", "z", "Q", "1", "I", "i", "w", "i", "c", "y", "I", "6", "M", "S", "w", "i", "Z", "S", "I", "6", "M", "w">>,
     <<"a", "G", "V", "s", "b", "G", "8">>,
     <<>>,
     <<"e", "3", "0">>}

\* A decodable payload /link never mints, {"c":"-10012345","s":1,"e":150}
WidePayload ==
    <<"e", "y", "J", "j", "I", "j", "o", "i", "L", "T", "E", "w", "M", "D", "E", "y", "M", "z", "Q", "1", "I", "i", "w", "i", "c", "y", "I", "6", "M", "S", "w", "i", "Z", "S", "I", "6", "M", "T", "U", "w", "f", "Q">>

\* Payloads after 'get_': those /link mints for one post, a few posts, the
\* widest range it accepts and a reversed pair of ids; the wide one; one with
\* its ids as strings and its members in another order,
\* {"s":"2","e":"4","c":"-10012345"}; and the undecodable ones
DumpPayloads ==
    {DumpPayload(<<"-", "1", "0", "0", "1", "2", "3", "4", "5">>, 5, 5), DumpPayload(<<"-", "1", "0", "0", "1", "2", "3", "4", "5">>, 1, 3),
     DumpPayload(<<"-", "1", "0", "0", "1", "2", "3", "4", "5">>, 1, MaxLinkRange + 1), DumpPayload(<<"-", "1", "0", "0", "1", "2", "3", "4", "5">>, 3, 1),
     WidePayload,
     <<"e", "y", "J", "z", "I", "j", "o", "i", "M", "i", "I", "s", "I", "m", "U", "i", "O", "i", "I", "0", "I", "i", "w", "i", "Y", "y", "I", "6", "I", "i", "0", "x", "M", "D", "A", "x", "M", "j", "M", "0", "N", "S", "J", "9">>}
    \cup UndecodablePayloads

\* Which copies throw: none, all, those of the odd message ids, the first
FailingSets(items) ==
    {{}, Range(items), {m \in Range(items) : m % 2 = 1},
     IF items = <<>> THEN {} ELSE {Head(items)}}

NoBatchIn == [path |-> "none", payload |-> <<>>, files |-> <<>>, failing |-> {}, fsubSet |-> FALSE,
              member |-> FALSE, promoOk |-> FALSE, replyOk |-> FALSE]

NoBatchOut == [decoded |-> FALSE, replies |-> <<>>, attempted |-> <<>>, sentMessages |-> <<>>,
               armed |-> FALSE, promo |-> FALSE]

BatchIdle ==
    /\ bPhase = "off"
    /\ bIn = NoBatchIn
    /\ bOut = NoBatchOut

BatchStart ==
    /\ bPhase = "idle"
    /\ bIn = NoBatchIn
    /\ bOut = NoBatchOut

\* One 'get_' deep link is handled
DumpHandle ==
    /\ bPhase = "idle"
    /\ \E startPayload \in DumpPayloads, fsubSet, member, promoOk, replyOk \in BOOLEAN :
          \E failing \in FailingSets(DumpRange(DumpDecode(startPayload).s, DumpDecode(startPayload).e)) :
             /\ bIn' = [path |-> "dump", payload |-> startPayload, files |-> <<>>, failing |-> failing,
                        fsubSet |-> fsubSet, member |-> member, promoOk |-> promoOk, replyOk |-> replyOk]
             /\ bOut' = handleDumpBatch(startPayload, fsubSet, member, promoOk, replyOk, failing)
    /\ bPhase' = "done"
    /\ UNCHANGED notBatch

\* One gall: callback is handled, on a page of 0..MaxBatch files
GallHandle ==
    /\ bPhase = "idle"
    /\ \E n \in 0..MaxBatch :
          \E failing \in SUBSET (1..n) :
             /\ bIn' = [NoBatchIn EXCEPT !.path = "gall", !.files = IdsFrom(1, n), !.failing = failing]
             /\ bOut' = GallBatch(IdsFrom(1, n), failing)
    /\ bPhase' = "done"
    /\ UNCHANGED notBatch

\* The next request
BatchSettle ==
    /\ bPhase = "done"
    /\ bPhase' = "idle"
    /\ bIn' = NoBatchIn
    /\ bOut' = NoBatchOut
    /\ UNCHANGED notBatch

BatchNext == DumpHandle \/ GallHandle \/ BatchSettle

\* ------------------------------------------------------------------------
\* The result message: its text, its keyboard, the menus opened from it
\* ------------------------------------------------------------------------

RECURSIVE TrimEnd(_)
TrimEnd(s) == IF s # <<>> /\ s[Len(s)] \in WhiteSpace THEN TrimEnd(SubSeq(s, 1, Len(s) - 1)) ELSE s

\* String.prototype.trim
trim(s) == TrimEnd(SkipSpace(s))

\* YEARS: the current year down to 2000, as strings
YEARS == [i \in 1..(CurrentYear - FirstYear + 1) |-> NatToString(CurrentYear - i + 1)]

\* The text sendSearchResults renders, from the user line on (the header
\* before it and the filter line hold no 'Search: ' of their own)
ResultText(query, page) ==
    <<"U", "s", "e", "r", ":", " ">> \o <<"grave", "1", "grave", "\n">> \o <<"S", "e", "a", "r", "c", "h", ":", " ">> \o <<"grave">> \o query \o <<"grave", "\n">>
    \o <<"P", "a", "g", "e", ":", " ">> \o NumToString(page + 1)

\* The text of a filter menu
MenuText == <<"R", "e", "f", "i", "n", "i", "n", "g", " ", "S", "e", "a", "r", "c", "h">> \o <<"\n">> \o <<"S", "e", "l", "e", "c", "t", ":">>

\* The text of a message as a callback query reports it when the entities
\* of its Markdown are taken out of the text
StripMarkup(text) == LET Plain(c) == c # "grave" IN SelectSeq(text, Plain)

\* text.match(/Search: `(.+?)`/): null, or the first capture, the shortest
\* run of one or more characters other than a line break that follows the
\* first 'Search: `' and ends before a grave accent
SearchLineMatch(text) ==
    LET lead == <<"S", "e", "a", "r", "c", "h", ":", " ">> \o <<"grave">>
        from(i) == i + Len(lead)
        Ends(i) == {j \in (from(i) + 1)..Len(text) :
                       /\ text[j] = "grave"
                       /\ \A k \in from(i)..(j - 1) : text[k] # "\n"}
        starts == {i \in 1..Len(text) :
                      /\ i + Len(lead) - 1 <= Len(text)
                      /\ SubSeq(text, i, i + Len(lead) - 1) = lead
                      /\ Ends(i) # {}}
    IN  IF starts = {} THEN NULL
        ELSE LET i == CHOOSE a \in starts : \A b \in starts : a <= b
                 j == CHOOSE a \in Ends(i) : \A b \in Ends(i) : a <= b
             IN  Str(SubSeq(text, from(i), j - 1))

\* extractQuery(ctx) of a callback query: the text of the message the result
\* message replies to when Telegram still reports one, else what the regex
\* finds in the text of the message itself
extractQuery(attached, replyText, messageText) ==
    IF attached THEN Str(replyText) ELSE SearchLineMatch(messageText)

\* A callback button: label says which button it is, key and value which
\* filter value a menu entry stands for, data is its callback data
Button(label, key, value, data) == [label |-> label, key |-> key, value |-> value, data |-> data]

\* A Prev or Next target that forgets the filters
PageTokenNoFilters(target, state) == NumToString(target) \o <<":", "-", ":", "-", ":", "-">>

\* The state of a Prev or Next button:
\* page +- 1, then state.split(':').slice(1).join(':')
PageToken(target, state) == NumToString(target) \o <<":">> \o Join(Tail(Split(state, ":")), <<":">>)

\* A Clear Filters test that looks at the language only
FiltersActiveLanguageOnly(filters) == Truthy(filters.file_lang)

\* filters.file_lang || filters.year || filters.quality
FiltersActive(filters) ==
    Truthy(filters.file_lang) \/ Truthy(filters.year) \/ Truthy(filters.quality)

\* generateKeyboard(files, query, page, hasNext, hasPrev, filters, userId):
\* the callback buttons (the url buttons of the nFiles files carry no state)
generateKeyboard(nFiles, page, hasNext, hasPrev, filters, admin) ==
    LET state == serializeFilters(page, filters)
    IN  {Button("menu", "lang", <<>>, <<"f", ":", "l", "a", "n", "g", ":">> \o state),
         Button("menu", "year", <<>>, <<"f", ":", "y", "e", "a", "r", ":">> \o state),
         Button("menu", "qual", <<>>, <<"f", ":", "q", "u", "a", "l", ":">> \o state)}
        \cup (IF hasPrev THEN {Button("prev", "", <<>>, <<"p", ":">> \o PageToken(page - 1, state))} ELSE {})
        \cup (IF hasNext THEN {Button("next", "", <<>>, <<"p", ":">> \o PageToken(page + 1, state))} ELSE {})
        \cup (IF nFiles > 0 THEN {Button("gall", "", <<>>, <<"g", "a", "l", "l", ":">> \o state)} ELSE {})
        \cup (IF nFiles > 0 /\ admin THEN {Button("share", "", <<>>, <<"s", ":">> \o state)} ELSE {})
        \cup (IF FiltersActive(filters) THEN {Button("clear", "", <<>>, <<"p", ":", "0", ":", "-", ":", "-", ":", "-">>)} ELSE {})

\* A menu entry that forgets the filters the menu was opened with
ApplyTokenAlone(filters, key, value) ==
    serializeFilters(0, [NoFilters EXCEPT ![key] = Str(value)])

\* The state of a menu entry: serializeFilters(0, { ...filters, [key]: value })
ApplyToken(filters, key, value) ==
    serializeFilters(0, [filters EXCEPT ![key] = Str(value)])

\* A Back button that goes to the first page without filters
BackTokenReset(state) == <<"0", ":", "-", ":", "-", ":", "-">>

\* The state of the Back to Results button: the state the menu was given
BackToken(state) == state

BackButton(state) == Button("back", "", <<>>, <<"p", ":">> \o BackToken(state))

\* The language and the quality menu of the f: handler, opened with the
\* state string of the pressed button
ValueMenu(type, state) ==
    LET filters == deserializeFilters(state).filters
        key == IF type = "lang" THEN "file_lang" ELSE "quality"
        values == IF type = "lang" THEN LanguageCodes ELSE QualityTags
    IN  {Button("value", key, values[i], <<"f", "a", "p", "l", ":">> \o ApplyToken(filters, key, values[i])) :
            i \in 1..Len(values)}
        \cup {BackButton(state)}

\* showYearMenu(ctx, yrPage, state): twelve years a page
showYearMenu(yrPage, state) ==
    LET filters == deserializeFilters(state).filters
        startIdx == yrPage * YearsPerPage
        yearSlice == Slice(YEARS, startIdx, startIdx + YearsPerPage)
    IN  {Button("value", "year", yearSlice[i], <<"f", "a", "p", "l", ":">> \o ApplyToken(filters, "year", yearSlice[i])) :
            i \in 1..Len(yearSlice)}
        \cup (IF yrPage > 0
              THEN {Button("yrPrev", "", <<>>, <<"y", "r", "m", ":">> \o NumToString(yrPage - 1) \o <<":">> \o state)}
              ELSE {})
        \cup (IF startIdx + YearsPerPage < Len(YEARS)
              THEN {Button("yrNext", "", <<>>, <<"y", "r", "m", ":">> \o NumToString(yrPage + 1) \o <<":">> \o state)}
              ELSE {})
        \cup {BackButton(state)}

\* ------------------------------------------------------------------------
\* One result message: the text handler and the p:, f:, yrm:, fapl: handlers
\* ------------------------------------------------------------------------

\* filters = {} of the first search
EmptyFilters == [file_lang |-> UNDEFINED, year |-> UNDEFINED, quality |-> UNDEFINED]

UiCatalog == BigCatalog

\* Texts a user sends: a query with an exact match, the same with white
\* space before it, one with a fuzzy match only, a command, white space
UiTexts == {<<"D", "u", "n", "e">>, <<" ", "D", "u", "n", "e">>, <<"D", "n", "u", "e">>, <<"/", "d", "u", "n", "e">>, <<" ">>}

\* The menu entries a user picks in this specification
UiPicks ==
    {<<"H", "I">>, <<"7", "2", "0", "p">>, <<"2", "0", "2", "1">>, YEARS[Len(YEARS)]}

\* What searchFiles can return to sendSearchResults: with and without a
\* failure of the store, Fuse.js finding nothing or every record
UiOutcomes(query, page, filters) ==
    LET e == ExactStage(UiCatalog, query, page, filters)
    IN  {SearchFrom(e, UiCatalog, query, page, filters, fault, fuseN).ret :
            fault \in {"none", "find"}, fuseN \in {0, Cardinality(UiCatalog)}}

NoScreen ==
    [kind |-> "none", query |-> <<>>, page |-> 0, filters |-> NoFilters, nFiles |-> 0,
     hasNext |-> FALSE, hasPrev |-> FALSE, yrPage |-> 0, text |-> <<>>, buttons |-> {}]

\* The message sendSearchResults sends or edits: text and keyboard for the
\* result ret of searchFiles(query, page, filters)
ResultsScreen(query, page, filters, ret, admin) ==
    [kind |-> "results", query |-> query, page |-> page, filters |-> filters,
     nFiles |-> Len(ret.files), hasNext |-> ret.hasNext, hasPrev |-> ret.hasPrev, yrPage |-> 0,
     text |-> ResultText(query, page),
     buttons |-> generateKeyboard(Len(ret.files), page, ret.hasNext, ret.hasPrev, filters, admin)]

\* The message after editMessageText of a filter menu: query, page, filters
\* and nFiles stay those of the result page shown before the menu
MenuScreen(from, type, yrPage, state) ==
    [from EXCEPT !.kind = type, !.yrPage = yrPage, !.text = MenuText,
                 !.buttons = IF type = "year" THEN showYearMenu(yrPage, state)
                             ELSE ValueMenu(type, state)]

\* The handler bot.action routes callback data to, with its captures:
\* /^p:(.+)$/, /^f:(lang|year|qual):(.+)$/, /^yrm:(\d+):(.+)$/, /^fapl:(.+)$/
Route(data) ==
    LET to(handler, type, yrPage, arg) ==
            [handler |-> IF arg = <<>> THEN "none" ELSE handler, type |-> type, yrPage |-> yrPage, arg |-> arg]
        digits == DigitPrefix(Drop(data, 4))
        afterDigits == Drop(data, 4 + Len(digits))
    IN  IF StartsWith(data, <<"p", ":">>) THEN to("p", "", 0, Drop(data, 2))
        ELSE IF StartsWith(data, <<"f", ":", "l", "a", "n", "g", ":">>) THEN to("f", "lang", 0, Drop(data, 7))
        ELSE IF StartsWith(data, <<"f", ":", "y", "e", "a", "r", ":">>) THEN to("f", "year", 0, Drop(data, 7))
        ELSE IF StartsWith(data, <<"f", ":", "q", "u", "a", "l", ":">>) THEN to("f", "qual", 0, Drop(data, 7))
        ELSE IF StartsWith(data, <<"f", "a", "p", "l", ":">>) THEN to("fapl", "", 0, Drop(data, 5))
        ELSE IF StartsWith(data, <<"y", "r", "m", ":">>) /\ digits # <<>> /\ StartsWith(afterDigits, <<":">>)
        THEN to("yrm", "year", DigitsValue(digits, 0), Tail(afterDigits))
        ELSE to("none", "", 0, <<>>)

\* The place a button was pressed on
Place(screen) == [kind |-> screen.kind, page |-> screen.page, filters |-> screen.filters, yrPage |-> screen.yrPage]

NoLast ==
    [label |-> "none", key |-> "", value |-> <<>>, handler |-> "none", query |-> NULL, outcome |-> "none",
     page |-> 0, filters |-> NoFilters, from |-> Place(NoScreen)]

\* What the handler of a pressed button can do: the screen it leaves and
\* the record of what it did.  query is what extractQuery returned; editOk
\* says whether editMessageText succeeded (a failure leaves the message as
\* it was).
PressOutcomes(b, query, screen, admin) ==
    LET r == Route(b.data)
        d == deserializeFilters(r.arg)
        did(outcome) == [label |-> b.label, key |-> b.key, value |-> b.value, handler |-> r.handler,
                         query |-> query, outcome |-> outcome, page |-> d.page, filters |-> d.filters,
                         from |-> Place(screen)]
    IN  IF r.handler \in {"p", "fapl"}
        THEN IF ~Truthy(query)
             THEN {[screen |-> screen, last |-> did("queryLost")]}
             ELSE {[screen |-> IF editOk THEN ResultsScreen(query.s, d.page, d.filters, ret, admin)
                               ELSE screen,
                    last |-> did(IF editOk THEN "results" ELSE "editFailed")] :
                      ret \in UiOutcomes(query.s, d.page, d.filters), editOk \in BOOLEAN}
        ELSE IF r.handler \in {"f", "yrm"}
        THEN {[screen |-> IF editOk THEN MenuScreen(screen, r.type, r.yrPage, r.arg) ELSE screen,
               last |-> did(IF editOk THEN "menu" ELSE "editFailed")] : editOk \in BOOLEAN}
        ELSE {[screen |-> screen, last |-> did("unrouted")]}

\* The buttons pressed in this specification: every button of the
\* handlers above, menu entries for the values of UiPicks
Pressable(buttons) ==
    {b \in buttons : /\ b.label \notin {"gall", "share"}
                     /\ b.label = "value" => b.value \in UiPicks}

NoTrigger == [text |-> <<>>, query |-> <<>>, attached |-> FALSE, admin |-> FALSE]

UiIdle ==
    /\ uiPhase = "off"
    /\ uiTrigger = NoTrigger
    /\ uiScreen = NoScreen
    /\ uiLast = NoLast

UiStart ==
    /\ uiPhase = "idle"
    /\ uiTrigger = NoTrigger
    /\ uiScreen = NoScreen
    /\ uiLast = NoLast

\* bot.on('text'): admitted says that checkUser, the link and keyword
\* checks and the subscription check let the message through, sent that the
\* reply with the results succeeded
UiSearch ==
    /\ uiPhase = "idle"
    /\ \E text \in UiTexts, admitted, admin, sent \in BOOLEAN :
          LET message == trim(text)
              did(outcome) == [NoLast EXCEPT !.label = "text", !.handler = "text",
                                             !.query = Str(message), !.outcome = outcome]
          IN  IF ~admitted \/ StartsWith(message, <<"/">>) \/ Len(message) = 0
              THEN /\ uiLast' = did("ignored")
                   /\ UNCHANGED <<uiPhase, uiTrigger, uiScreen>>
              ELSE \E ret \in UiOutcomes(message, 0, EmptyFilters) :
                      IF Len(ret.files) = 0 \/ ~sent
                      THEN /\ uiLast' = did("noMessage")
                           /\ UNCHANGED <<uiPhase, uiTrigger, uiScreen>>
                      ELSE /\ uiLast' = did("results")
                           /\ uiPhase' = "shown"
                           /\ uiTrigger' = [text |-> text, query |-> message, attached |-> TRUE, admin |-> admin]
                           /\ uiScreen' = ResultsScreen(message, 0, EmptyFilters, ret, admin)
    /\ UNCHANGED notUi

\* A callback button of the message is pressed.  seen is the text Telegram
\* reports for the message: as it was sent, or without the grave accents.
UiPress ==
    /\ uiPhase = "shown"
    /\ \E b \in Pressable(uiScreen.buttons), seen \in {uiScreen.text, StripMarkup(uiScreen.text)} :
          LET query == extractQuery(uiTrigger.attached, uiTrigger.text, seen)
          IN  \E next \in PressOutcomes(b, query, uiScreen, uiTrigger.admin) :
                 /\ uiScreen' = next.screen
                 /\ uiLast' = next.last
    /\ UNCHANGED <<uiPhase, uiTrigger>>
    /\ UNCHANGED notUi

\* The user deletes the message they searched with: the result message
\* replies to nothing any more
UiTriggerDeleted ==
    /\ uiPhase = "shown"
    /\ uiTrigger.attached
    /\ uiTrigger' = [uiTrigger EXCEPT !.attached = FALSE]
    /\ UNCHANGED <<uiPhase, uiScreen, uiLast>>
    /\ UNCHANGED notUi

\* The user leaves the message and starts over
UiReset ==
    /\ uiPhase = "shown"
    /\ uiPhase' = "idle"
    /\ uiTrigger' = NoTrigger
    /\ uiScreen' = NoScreen
    /\ uiLast' = NoLast
    /\ UNCHANGED notUi

UiNext == UiSearch \/ UiPress \/ UiTriggerDeleted \/ UiReset

\* ------------------------------------------------------------------------
\* trackSearch: the trending counters under calls in flight together
\* ------------------------------------------------------------------------

\* The queries trackSearch is called with: two spellings of one counter
\* key, a second key, and a query too short to be counted
TrackQueries == {<<"D", "u", "n", "e">>, <<"D", "U", "N", "E">>, <<"H", "e", "a", "t">>, <<"D", "u">>}

\* The position of a call: "idle" before it, "sent" once updateOne is
\* awaited, "nomatch" when the store found no document for the filter and
\* is about to insert one, "resolved", "caught" (the catch block ran) or
\* "returned" (the early return)
TrackerAt(p, pc) == trackers[p].pc = pc

\* The documents of the collection that the filter { query: key } selects
TrendMatches(key) == {i \in 1..Len(trendDocs) : trendDocs[i].query = key}

TrendIdle ==
    /\ trendPhase = "off"
    /\ trendDocs = <<>>
    /\ trackers = <<>>

\* An empty trending collection and no call made yet
TrendStart ==
    /\ trendPhase = "on"
    /\ trendDocs = <<>>
    /\ trackers = [p \in 1..MaxCallers |-> [query |-> <<>>, pc |-> "idle"]]

\* trackSearch(query) up to its first suspension point: the early return,
\* or updateOne sent to the store
TrackCall ==
    /\ trendPhase = "on"
    /\ \E p \in 1..MaxCallers, query \in TrackQueries :
          /\ TrackerAt(p, "idle")
          /\ trackers' = [trackers EXCEPT ![p] =
                [query |-> query,
                 pc |-> IF TrackReachesStore(query) THEN "sent" ELSE "returned"]]
    /\ UNCHANGED <<trendPhase, trendDocs>>
    /\ UNCHANGED notTrend

\* The store runs updateOne({ query }, { $inc: { count: 1 } }, { upsert:
\* true }): with a matching document the increment is applied to the first
\* one in a single step; with none the operation goes on to insert
UpsertMatch ==
    /\ trendPhase = "on"
    /\ \E p \in 1..MaxCallers :
          /\ TrackerAt(p, "sent")
          /\ LET key == toLowerCase(trackers[p].query)
                 hit == TrendMatches(key)
             IN  IF hit # {}
                 THEN LET i == CHOOSE a \in hit : \A b \in hit : a <= b
                      IN  /\ trendDocs' = [trendDocs EXCEPT ![i].count = @ + 1]
                          /\ trackers' = [trackers EXCEPT ![p].pc = "resolved"]
                 ELSE /\ trackers' = [trackers EXCEPT ![p].pc = "nomatch"]
                      /\ UNCHANGED trendDocs
    /\ UNCHANGED trendPhase
    /\ UNCHANGED notTrend

\* The insert of an upsert that matched nothing: the collection has a TTL
\* index on last_searched and no unique index on query, so the insert is
\* never refused, whatever was inserted since the match was attempted
UpsertInsert ==
    /\ trendPhase = "on"
    /\ \E p \in 1..MaxCallers :
          /\ TrackerAt(p, "nomatch")
          /\ trendDocs' = Append(trendDocs, [query |-> toLowerCase(trackers[p].query), count |-> 1])
          /\ trackers' = [trackers EXCEPT ![p].pc = "resolved"]
    /\ UNCHANGED trendPhase
    /\ UNCHANGED notTrend

\* updateOne rejects: the catch block logs and trackSearch returns
UpdateRejects ==
    /\ trendPhase = "on"
    /\ \E p \in 1..MaxCallers :
          /\ TrackerAt(p, "sent") \/ TrackerAt(p, "nomatch")
          /\ trackers' = [trackers EXCEPT ![p].pc = "caught"]
    /\ UNCHANGED <<trendPhase, trendDocs>>
    /\ UNCHANGED notTrend

TrendNext == TrackCall \/ UpsertMatch \/ UpsertInsert \/ UpdateRejects

\* ------------------------------------------------------------------------
\* indexFile: the files collection under calls in flight together
\* ------------------------------------------------------------------------

\* The file_id values indexFile is called with
IndexKeys == {1, 2}

\* A call not made yet. pc is "idle", "finding" while findOne is awaited,
\* "inserting" while insertOne is awaited, or "returned"; sawAbsent says
\* findOne resolved with no document, fault that the store failed for a
\* reason other than the key, inserted that insertOne stored the document;
\* result is [success, duplicate] of the object returned.
NoIndexer ==
    [key |-> 0, pc |-> "idle", sawAbsent |-> FALSE, fault |-> FALSE, inserted |-> FALSE,
     result |-> [success |-> FALSE, duplicate |-> FALSE]]

\* { success: false, message: 'File already indexed', duplicate: true }
AlreadyIndexed == [success |-> FALSE, duplicate |-> TRUE]

\* { success: true, message: 'File indexed successfully', duplicate: false }
Indexed == [success |-> TRUE, duplicate |-> FALSE]

\* { success: false, message: 'Error indexing file', duplicate: false }
IndexError == [success |-> FALSE, duplicate |-> FALSE]

\* The collection holds a document of this _id
Stored(key) == \E i \in 1..Len(fileDocs) : fileDocs[i] = key

IndexIdle ==
    /\ indexPhase = "off"
    /\ fileDocs = <<>>
    /\ indexers = <<>>
    /\ deleted = {}

\* A collection that is empty or holds one file, and no call made yet
IndexStart ==
    /\ indexPhase = "on"
    /\ fileDocs \in {<<>>, <<1>>}
    /\ indexers = [p \in 1..MaxCallers |-> NoIndexer]
    /\ deleted = {}

\* indexFile(fileData) up to its first suspension point: the document is
\* built and findOne({ _id }) is sent
IndexCall ==
    /\ indexPhase = "on"
    /\ \E p \in 1..MaxCallers, key \in IndexKeys :
          /\ indexers[p].pc = "idle"
          /\ indexers' = [indexers EXCEPT ![p] = [NoIndexer EXCEPT !.key = key, !.pc = "finding"]]
    /\ UNCHANGED <<indexPhase, fileDocs, deleted>>
    /\ UNCHANGED notIndex

\* findOne resolves: with a document the call returns duplicate: true,
\* with none it sends insertOne
FindResolves ==
    /\ indexPhase = "on"
    /\ \E p \in 1..MaxCallers :
          /\ indexers[p].pc = "finding"
          /\ indexers' = [indexers EXCEPT ![p] =
                IF Stored(indexers[p].key)
                THEN [@ EXCEPT !.pc = "returned", !.result = AlreadyIndexed]
                ELSE [@ EXCEPT !.pc = "inserting", !.sawAbsent = TRUE]]
    /\ UNCHANGED <<indexPhase, fileDocs, deleted>>
    /\ UNCHANGED notIndex

\* insertOne resolves or rejects: the store keeps _id unique, so a
\* document whose _id is stored by now is refused with a duplicate key
\* error, which the catch block turns into the error result
InsertResolves ==
    /\ indexPhase = "on"
    /\ \E p \in 1..MaxCallers :
          /\ indexers[p].pc = "inserting"
          /\ IF Stored(indexers[p].key)
             THEN /\ indexers' = [indexers EXCEPT ![p] = [@ EXCEPT !.pc = "returned", !.result = IndexError]]
                  /\ UNCHANGED fileDocs
             ELSE /\ indexers' = [indexers EXCEPT ![p] =
                        [@ EXCEPT !.pc = "returned", !.inserted = TRUE, !.result = Indexed]]
                  /\ fileDocs' = Append(fileDocs, indexers[p].key)
    /\ UNCHANGED <<indexPhase, deleted>>
    /\ UNCHANGED notIndex

\* findOne or insertOne rejects for another reason (the store is down):
\* the catch block returns the error result
IndexStoreFails ==
    /\ indexPhase = "on"
    /\ \E p \in 1..MaxCallers :
          /\ indexers[p].pc \in {"finding", "inserting"}
          /\ indexers' = [indexers EXCEPT ![p] =
                [@ EXCEPT !.pc = "returned", !.fault = TRUE, !.result = IndexError]]
    /\ UNCHANGED <<indexPhase, fileDocs, deleted>>
    /\ UNCHANGED notIndex

\* filesCollection.deleteOne({ _id }): a stored file is deleted
DeleteFile ==
    /\ indexPhase = "on"
    /\ \E key \in IndexKeys :
          /\ Stored(key)
          /\ fileDocs' = SelectSeq(fileDocs, LAMBDA k : k # key)
          /\ deleted' = deleted \cup {key}
    /\ UNCHANGED <<indexPhase, indexers>>
    /\ UNCHANGED notIndex

IndexNext == IndexCall \/ FindResolves \/ InsertResolves \/ IndexStoreFails \/ DeleteFile

\* ------------------------------------------------------------------------
\* One delivery and its monetization forward
\* ------------------------------------------------------------------------

NoPromoIn ==
    [made |-> FALSE, path |-> "none", nFiles |-> 0, nSent |-> 0, growthLock |-> FALSE,
     channelSet |-> FALSE, postSet |-> FALSE, premium |-> FALSE, forwardOk |-> FALSE]

PromoIdle == promoIn = NoPromoIn

\* The groups a delivery with recorded settings leaves alone
notDeliveryPromo == <<codecVars, searchVars, linkVars, startVars, callbackVars, batchVars, uiVars, trendVars, indexVars, webVars, gateVars, catVars, biVars, refVars>>

notWeb == <<codecVars, searchVars, linkVars, startVars, deliveryVars, callbackVars, batchVars, uiVars, trendVars, indexVars, promoVars, gateVars, catVars, biVars, refVars>>

notGate == <<codecVars, searchVars, linkVars, startVars, deliveryVars, callbackVars, batchVars, uiVars, trendVars, indexVars, promoVars, webVars, catVars, biVars, refVars>>

notCat == <<codecVars, searchVars, linkVars, startVars, deliveryVars, callbackVars, batchVars, uiVars, trendVars, indexVars, promoVars, webVars, gateVars, biVars, refVars>>

notBi == <<codecVars, searchVars, linkVars, startVars, deliveryVars, callbackVars, batchVars, uiVars, trendVars, indexVars, promoVars, webVars, gateVars, catVars, refVars>>

notRef == <<codecVars, searchVars, linkVars, startVars, deliveryVars, callbackVars, batchVars, uiVars, trendVars, indexVars, promoVars, webVars, gateVars, catVars, biVars>>

\* One run of a delivery handler under settings that are kept: IS_GROWTH_LOCK,
\* MONETIZATION_CHANNEL_ID || FSUB_CHANNEL_ID, LAST_MONETIZATION_POST_ID,
\* isPremium(ctx.from.id), and whether forwardMessage succeeds
DeliverOnce ==
    /\ ~promoIn.made
    /\ \E path \in DeliveryPaths, nFiles \in 0..MaxBatch,
          growthLock, channelSet, postSet, premium, forwardOk \in BOOLEAN :
          /\ path = "sendFile" => nFiles <= 1
          /\ \E nSent \in 0..nFiles :
                LET promo == PromoForwarded(path, nFiles, growthLock, channelSet, postSet,
                                            premium, forwardOk)
                    d == DeliveryTimers(path, nFiles, promo, nSent, nextMsg)
                IN  /\ timers' = timers \o d.timers
                    /\ nextMsg' = d.nextMsg
                    /\ promoIn' = [made |-> TRUE, path |-> path, nFiles |-> nFiles, nSent |-> nSent,
                                   growthLock |-> growthLock, channelSet |-> channelSet,
                                   postSet |-> postSet, premium |-> premium,
                                   forwardOk |-> forwardOk]
    /\ UNCHANGED <<now, deleteLog, unhandled, noticeLog>>
    /\ UNCHANGED notDeliveryPromo

PromoNext == DeliverOnce \/ Advance \/ FireContent \/ FireOther

\* ------------------------------------------------------------------------
\* The cache of web search results: /search, wsrp:, the periodic sweep
\* ------------------------------------------------------------------------

NoWebRequest == [id |-> 0, page |-> 0, age |-> 0, outcome |-> "none"]

WebIdle ==
    /\ webPhase = "off"
    /\ webNow = 0
    /\ webSwept = 0
    /\ webMade = <<>>
    /\ webCache = {}
    /\ webLast = NoWebRequest

\* The process has started: the interval of the sweep begins, the cache is
\* empty
WebStart ==
    /\ webPhase = "on"
    /\ webNow = 0
    /\ webSwept = 0
    /\ webMade = <<>>
    /\ webCache = {}
    /\ webLast = NoWebRequest

\* The callback of setInterval is due
SweepDue == webNow - webSwept >= WebSweepMinutes

\* sendWebResults(ctx, searchId, page, true) on the cache: 'Results
\* expired' when the cache holds no entry of the id, nothing when the page
\* is out of range, else the topic of the page
sendWebResults(id, page) ==
    IF id \notin webCache THEN "expired"
    ELSE IF page < 0 \/ page >= webMade[id].topics THEN "nothing"
    ELSE "shown"

\* /search by a user checkUser lets through: searchWebsite finds topics;
\* with none nothing is cached, else the results are cached under a new
\* search id with timestamp Date.now()
WebSearch ==
    /\ webPhase = "on"
    /\ ~SweepDue
    /\ Len(webMade) < MaxWebSearches
    /\ \E topics \in 0..2 :
          IF topics = 0
          THEN UNCHANGED <<webMade, webCache>>
          ELSE /\ webMade' = Append(webMade, [timestamp |-> webNow, topics |-> topics])
               /\ webCache' = webCache \cup {Len(webMade) + 1}
    /\ webLast' = NoWebRequest
    /\ UNCHANGED <<webPhase, webNow, webSwept>>
    /\ UNCHANGED notWeb

\* A wsrp: button of an earlier result message is pressed
WebPage ==
    /\ webPhase = "on"
    /\ ~SweepDue
    /\ \E id \in 1..Len(webMade), page \in 0..1 :
          webLast' = [id |-> id, page |-> page, age |-> webNow - webMade[id].timestamp,
                      outcome |-> sendWebResults(id, page)]
    /\ UNCHANGED <<webPhase, webNow, webSwept, webMade, webCache>>
    /\ UNCHANGED notWeb

\* The sweep: every entry with now - timestamp > 30 minutes is deleted
WebSweep ==
    /\ webPhase = "on"
    /\ SweepDue
    /\ webCache' = {id \in webCache : ~(webNow - webMade[id].timestamp > WebExpiryMinutes)}
    /\ webSwept' = webNow
    /\ UNCHANGED <<webPhase, webNow, webMade, webLast>>
    /\ UNCHANGED notWeb

\* Time passes; a sweep that is due runs first
WebTick ==
    /\ webPhase = "on"
    /\ ~SweepDue
    /\ webNow + WebStep <= MaxWebMinutes
    /\ webNow' = webNow + WebStep
    /\ UNCHANGED <<webPhase, webSwept, webMade, webCache, webLast>>
    /\ UNCHANGED notWeb

WebNext == WebSearch \/ WebPage \/ WebSweep \/ WebTick

\* ------------------------------------------------------------------------
\* Maintenance mode and the entry points that search or deliver
\* ------------------------------------------------------------------------

GateUsers == {"admin", "u1", "u2"}

\* isAdmin(ctx.from.id)
IsAdminUser(user) == user = "admin"

\* The handlers that search or deliver: the text handler, /start with a
\* deep link, and the callback buttons of a result message
GateEntries == {"text", "start", "p", "fapl", "gall", "getall"}

\* The handlers that begin with: if (!await checkUser(ctx)) return
CallsCheckUser(entry) == entry \in {"text", "start"}

\* checkUser(ctx) lets the handler go on
CheckUserPasses(user) ==
    checkUser(IsAdminUser(user), IS_MAINTENANCE, user \in bannedUsers) = "ok"

\* Whether the handler of the entry point gets to its search or delivery
\* for this user, otherOk standing for its remaining conditions (the
\* subscription, a query that is found, a send that succeeds)
Served(entry, user, otherOk) ==
    /\ CallsCheckUser(entry) => CheckUserPasses(user)
    /\ otherOk

NoGateUpdate == [user |-> "none", entry |-> "none", maintenance |-> FALSE, served |-> FALSE]

GateIdle ==
    /\ gatePhase = "off"
    /\ IS_MAINTENANCE = FALSE
    /\ bannedUsers = {}
    /\ resultHolders = {}
    /\ gateLast = NoGateUpdate

\* The bot runs, out of maintenance; nobody has searched yet
GateStart ==
    /\ gatePhase = "on"
    /\ IS_MAINTENANCE = FALSE
    /\ bannedUsers = {}
    /\ resultHolders = {}
    /\ gateLast = NoGateUpdate

\* toggle_mnt pressed by an admin
ToggleMaintenance ==
    /\ gatePhase = "on"
    /\ IS_MAINTENANCE' = ~IS_MAINTENANCE
    /\ UNCHANGED <<gatePhase, bannedUsers, resultHolders, gateLast>>
    /\ UNCHANGED notGate

\* The isBanned field of a user's record is set or cleared in the store
ToggleBan ==
    /\ gatePhase = "on"
    /\ \E user \in GateUsers :
          /\ ~IsAdminUser(user)
          /\ bannedUsers' = IF user \in bannedUsers THEN bannedUsers \ {user}
                            ELSE bannedUsers \cup {user}
    /\ UNCHANGED <<gatePhase, IS_MAINTENANCE, resultHolders, gateLast>>
    /\ UNCHANGED notGate

\* A text message or a /start deep link: checkUser first, then the search
\* or the delivery; a text search that is served leaves a result message
TextOrStart ==
    /\ gatePhase = "on"
    /\ \E user \in GateUsers, entry \in {"text", "start"}, otherOk \in BOOLEAN :
          LET served == Served(entry, user, otherOk)
          IN  /\ gateLast' = [user |-> user, entry |-> entry, maintenance |-> IS_MAINTENANCE,
                              served |-> served]
              /\ resultHolders' = IF served /\ entry = "text"
                                  THEN resultHolders \cup {user} ELSE resultHolders
    /\ UNCHANGED <<gatePhase, IS_MAINTENANCE, bannedUsers>>
    /\ UNCHANGED notGate

\* A button of a result message the user holds is pressed: p:, fapl:,
\* gall: or getall_
PressButton ==
    /\ gatePhase = "on"
    /\ \E user \in resultHolders, entry \in {"p", "fapl", "gall", "getall"}, otherOk \in BOOLEAN :
          gateLast' = [user |-> user, entry |-> entry, maintenance |-> IS_MAINTENANCE,
                       served |-> Served(entry, user, otherOk)]
    /\ UNCHANGED <<gatePhase, IS_MAINTENANCE, bannedUsers, resultHolders>>
    /\ UNCHANGED notGate

GateNext == ToggleMaintenance \/ ToggleBan \/ TextOrStart \/ PressButton

\* ------------------------------------------------------------------------
\* The files collection: the migration of connectDB, indexing, deletion
\* ------------------------------------------------------------------------

\* Documents the collection may hold when the process starts: two written
\* by an earlier version, with the language in the field 'language', and
\* one without a language; two of them of one byte size
StoredSamples ==
    { [id |-> 1, ref |-> 11, size |-> 100, name |-> <<"A">>, lang |-> "language"],
      [id |-> 2, ref |-> 12, size |-> 100, name |-> <<"B">>, lang |-> "none"],
      [id |-> 3, ref |-> 13, size |-> 200, name |-> <<"C">>, lang |-> "language"] }

\* The media of channel posts: [file_id, unique, size, name].  Files posted
\* again by another bot have ids of their own (9, 19) and are matched by
\* name and size, or by size alone
MediaSamples ==
    { [file_id |-> 1, unique |-> 11, size |-> 100, name |-> <<"A">>],
      [file_id |-> 4, unique |-> 14, size |-> 200, name |-> <<"D">>],
      [file_id |-> 9, unique |-> 19, size |-> 100, name |-> <<"b">>],
      [file_id |-> 9, unique |-> 19, size |-> 200, name |-> <<"z">>],
      [file_id |-> 9, unique |-> 19, size |-> 100, name |-> <<"z">>] }

NoCatOp == [op |-> "none", branch |-> "none", size |-> 0]

CatIdle ==
    /\ catPhase = "off"
    /\ storeFiles = {}
    /\ catLast = NoCatOp

\* The process starts on a collection left by earlier runs
CatStart ==
    /\ catPhase = "boot"
    /\ storeFiles \in SUBSET StoredSamples
    /\ catLast = NoCatOp

\* connectDB: when a document has the field 'language', updateMany renames
\* it to 'file_lang' in every document that has it
Migrate ==
    /\ catPhase = "boot"
    /\ storeFiles' = IF \E f \in storeFiles : f.lang = "language"
                     THEN {IF f.lang = "language" THEN [f EXCEPT !.lang = "file_lang"] ELSE f :
                              f \in storeFiles}
                     ELSE storeFiles
    /\ catPhase' = "running"
    /\ catLast' = [NoCatOp EXCEPT !.op = "connectDB"]
    /\ UNCHANGED notCat

\* A media post in the database channel: indexFile inserts a document
\* unless one of that _id is stored
IndexPost ==
    /\ catPhase = "running"
    /\ \E m \in MediaSamples :
          /\ storeFiles' = IF \E f \in storeFiles : f.id = m.file_id
                           THEN storeFiles
                           ELSE storeFiles \cup {[id |-> m.file_id, ref |-> m.unique, size |-> m.size,
                                                  name |-> m.name, lang |-> "none"]}
          /\ catLast' = [op |-> "index", branch |-> "none", size |-> m.size]
    /\ UNCHANGED catPhase
    /\ UNCHANGED notCat

\* delete_execute_<fileId> pressed by an admin: findOne by _id or file_ref,
\* then deleteOne of the document found
AdminDelete ==
    /\ catPhase = "running"
    /\ \E fileId \in {1, 2, 3, 11, 4} :
          LET hit == {f \in storeFiles : f.id = fileId \/ f.ref = fileId}
          IN  /\ IF hit = {} THEN UNCHANGED storeFiles
                 ELSE \E f \in hit : storeFiles' = storeFiles \ {f}
              /\ catLast' = [op |-> "adminDelete", branch |-> IF hit = {} THEN "ignored" ELSE "id",
                             size |-> 0]
    /\ UNCHANGED catPhase
    /\ UNCHANGED notCat

\* A size-only fallback that deletes one of several files of that size
SizeOnlyTargetAny(sameSizeFiles) ==
    IF sameSizeFiles = {} THEN {} ELSE {CHOOSE f \in sameSizeFiles : TRUE}

\* The final fallback of the delete channel: the file to delete when
\* sameSizeFiles.length === 1, none otherwise
SizeOnlyTarget(sameSizeFiles) ==
    IF Cardinality(sameSizeFiles) = 1 THEN sameSizeFiles ELSE {}

\* A media post in the delete channel: the lookup by file_id and
\* file_unique_id against _id and file_ref; else by size and name (the
\* escaped name between ^ and $, case-insensitive); else by size alone
DeletePost ==
    /\ catPhase = "running"
    /\ \E m \in MediaSamples :
          LET byId == {f \in storeFiles : \/ f.id = m.file_id \/ f.ref = m.file_id
                                          \/ f.id = m.unique \/ f.ref = m.unique}
              byName == {f \in storeFiles : /\ f.size = m.size
                                            /\ toLowerCase(f.name) = toLowerCase(m.name)}
              target == SizeOnlyTarget({f \in storeFiles : f.size = m.size})
          IN  IF byId # {}
              THEN /\ \E f \in byId : storeFiles' = storeFiles \ {f}
                   /\ catLast' = [op |-> "deletePost", branch |-> "id", size |-> m.size]
              ELSE IF byName # {}
              THEN /\ \E f \in byName : storeFiles' = storeFiles \ {f}
                   /\ catLast' = [op |-> "deletePost", branch |-> "name", size |-> m.size]
              ELSE /\ storeFiles' = storeFiles \ target
                   /\ catLast' = [op |-> "deletePost",
                                  branch |-> IF target = {} THEN "ignored" ELSE "size",
                                  size |-> m.size]
    /\ UNCHANGED catPhase
    /\ UNCHANGED notCat

CatNext == Migrate \/ IndexPost \/ AdminDelete \/ DeletePost

\* ------------------------------------------------------------------------
\* batchIndexFromChannel
\* ------------------------------------------------------------------------

\* What the channels of the model hold: new media at every id, a mix of
\* new media, duplicates and text, media the store refuses, or nothing the
\* bot may forward
ChannelKinds == {"media", "mixed", "storeDown", "refused"}

\* What one iteration meets at message id: "new" or "duplicate" media,
\* "indexError" (indexFile returned neither success nor duplicate),
\* "nomedia", "e400" (forwardMessage rejects with error_code 400: no such
\* message) or "eOther" (any other rejection)
MessageAt(channel, id) ==
    IF channel = "refused" THEN "eOther"
    ELSE IF id < 1 THEN "e400"
    ELSE IF channel = "media" THEN "new"
    ELSE IF channel = "storeDown" THEN "indexError"
    ELSE IF id % 3 = 0 THEN "duplicate"
    ELSE IF id % 3 = 1 THEN "new"
    ELSE "nomedia"

NoBiIn == [channel |-> "none", from |-> 0, ctxMessage |-> FALSE]

NoBiLoop == [i |-> 0, cur |-> 0, indexed |-> 0, duplicates |-> 0, errors |-> 0, stop |-> "none"]

BiIdle ==
    /\ biPhase = "off"
    /\ biIn = NoBiIn
    /\ biLoop = NoBiLoop

BiStart ==
    /\ biPhase = "idle"
    /\ biIn = NoBiIn
    /\ biLoop = NoBiLoop

\* batchIndexFromChannel(channelId, fromMessageId, ctx) is called; ctx is
\* the context of a message (ctx.message defined) or of a callback query
\* (ctx.message undefined)
BatchIndexCall ==
    /\ biPhase = "idle"
    /\ \E channel \in ChannelKinds, from \in {3, MaxFromId}, ctxMessage \in BOOLEAN :
          /\ biIn' = [channel |-> channel, from |-> from, ctxMessage |-> ctxMessage]
          /\ biLoop' = [NoBiLoop EXCEPT !.cur = from]
    /\ biPhase' = "running"
    /\ UNCHANGED notBi

\* Whether the progress update throws: once (indexed + duplicates) % 10 is 0
\* its argument ctx.message.message_id + 1 is evaluated, a TypeError when
\* ctx.message is undefined; the .catch() covers only the promise
ProgressThrows(counted, ctxMessage) ==
    counted % ProgressEvery = 0 /\ ~ctxMessage

\* One iteration of the loop, or its end after IndexLoopLimit iterations
BatchIndexStep ==
    /\ biPhase = "running"
    /\ IF biLoop.i >= IndexLoopLimit
       THEN /\ biPhase' = "done"
            /\ biLoop' = [biLoop EXCEPT !.stop = "limit"]
       ELSE LET kind == MessageAt(biIn.channel, biLoop.cur)
                indexed == biLoop.indexed + (IF kind = "new" THEN 1 ELSE 0)
                duplicates == biLoop.duplicates + (IF kind = "duplicate" THEN 1 ELSE 0)
                thrown == kind = "eOther" \/ (kind # "e400" /\ ProgressThrows(indexed + duplicates, biIn.ctxMessage))
                \* currentMessageId-- in the try block, and again in the catch block
                stepsDown == (IF kind \in {"e400", "eOther"} THEN 0 ELSE 1) + (IF thrown THEN 1 ELSE 0)
            IN  IF kind = "e400"
                THEN /\ biPhase' = "done"
                     /\ biLoop' = [biLoop EXCEPT !.stop = "e400"]
                ELSE /\ biPhase' = "running"
                     /\ biLoop' = [i |-> biLoop.i + 1,
                                   cur |-> biLoop.cur - stepsDown,
                                   indexed |-> indexed,
                                   duplicates |-> duplicates,
                                   errors |-> biLoop.errors + (IF thrown THEN 1 ELSE 0),
                                   stop |-> "none"]
    /\ UNCHANGED biIn
    /\ UNCHANGED notBi

\* The caller has shown the summary; the next call
BatchIndexReturn ==
    /\ biPhase = "done"
    /\ biPhase' = "idle"
    /\ biIn' = NoBiIn
    /\ biLoop' = NoBiLoop
    /\ UNCHANGED notBi

BiNext == BatchIndexCall \/ BatchIndexStep \/ BatchIndexReturn

\* ------------------------------------------------------------------------
\* saveUser: the referral count under /start updates in flight together
\* ------------------------------------------------------------------------

\* The user ids of the model: 1 is new, 2 and 4 are stored
RefUsers == {1, 2, 4}

StoredAtStart == {2, 4}

\* The referredBy values bot.start passes: 0 stands for null and for NaN,
\* both falsy
ReferrerValues == {0, 1, 2}

\* pc is "idle", "finding" (findOne awaited), "incrementing" (the updateOne
\* of the referrer awaited), "saving" (the upsert of the user awaited) or
\* "returned"
NoSaver == [user |-> 0, referredBy |-> 0, pc |-> "idle", existing |-> FALSE, incremented |-> FALSE]

RefIdle ==
    /\ refPhase = "off"
    /\ storedUsers = {}
    /\ referrals = <<>>
    /\ refIncs = <<>>
    /\ savers = <<>>

RefStart ==
    /\ refPhase = "on"
    /\ storedUsers = StoredAtStart
    /\ referrals = [u \in RefUsers |-> 0]
    /\ refIncs = [u \in RefUsers |-> 0]
    /\ savers = [p \in 1..MaxCallers |-> NoSaver]

\* saveUser(user, referredBy) up to its first suspension point
SaveUserCall ==
    /\ refPhase = "on"
    /\ \E p \in 1..MaxCallers, user \in {1, 4}, referredBy \in ReferrerValues :
          /\ savers[p].pc = "idle"
          /\ savers' = [savers EXCEPT ![p] = [NoSaver EXCEPT !.user = user, !.referredBy = referredBy,
                                                             !.pc = "finding"]]
    /\ UNCHANGED <<refPhase, storedUsers, referrals, refIncs>>
    /\ UNCHANGED notRef

\* if (!existingUser) { ... if (referredBy && referredBy !== user.id)
CountsReferral(existing, referredBy, user) ==
    ~existing /\ referredBy # 0 /\ referredBy # user

\* findOne({ user_id }) resolves: the call goes on to increment the
\* referrer or to the upsert of the user
FindUserResolves ==
    /\ refPhase = "on"
    /\ \E p \in 1..MaxCallers :
          /\ savers[p].pc = "finding"
          /\ LET existing == savers[p].user \in storedUsers
             IN  savers' = [savers EXCEPT ![p] =
                    [@ EXCEPT !.existing = existing,
                              !.pc = IF CountsReferral(existing, savers[p].referredBy, savers[p].user)
                                     THEN "incrementing" ELSE "saving"]]
    /\ UNCHANGED <<refPhase, storedUsers, referrals, refIncs>>
    /\ UNCHANGED notRef

\* updateOne({ user_id: referredBy }, { $inc: { referrals: 1 } }): one
\* atomic increment when the referrer is stored, nothing otherwise
IncrementReferrer ==
    /\ refPhase = "on"
    /\ \E p \in 1..MaxCallers :
          /\ savers[p].pc = "incrementing"
          /\ referrals[savers[p].referredBy] < MaxCallers
          /\ IF savers[p].referredBy \in storedUsers
             THEN /\ referrals' = [referrals EXCEPT ![savers[p].referredBy] = @ + 1]
                  /\ refIncs' = [refIncs EXCEPT ![savers[p].user] = @ + 1]
                  /\ savers' = [savers EXCEPT ![p] = [@ EXCEPT !.pc = "saving", !.incremented = TRUE]]
             ELSE /\ savers' = [savers EXCEPT ![p] = [@ EXCEPT !.pc = "saving"]]
                  /\ UNCHANGED <<referrals, refIncs>>
    /\ UNCHANGED <<refPhase, storedUsers>>
    /\ UNCHANGED notRef

\* updateOne({ user_id }, updateDoc, { upsert: true }): the user is stored;
\* a call that found no user sets referrals: 0 in the document
UpsertUser ==
    /\ refPhase = "on"
    /\ \E p \in 1..MaxCallers :
          /\ savers[p].pc = "saving"
          /\ storedUsers' = storedUsers \cup {savers[p].user}
          /\ referrals' = IF savers[p].existing THEN referrals
                          ELSE [referrals EXCEPT ![savers[p].user] = 0]
          /\ savers' = [savers EXCEPT ![p] = [@ EXCEPT !.pc = "returned"]]
    /\ UNCHANGED <<refPhase, refIncs>>
    /\ UNCHANGED notRef

\* A call to the store rejects: the catch block logs and saveUser returns
SaveUserRejects ==
    /\ refPhase = "on"
    /\ \E p \in 1..MaxCallers :
          /\ savers[p].pc \in {"finding", "incrementing", "saving"}
          /\ savers' = [savers EXCEPT ![p] = [@ EXCEPT !.pc = "returned"]]
    /\ UNCHANGED <<refPhase, storedUsers, referrals, refIncs>>
    /\ UNCHANGED notRef

RefNext == SaveUserCall \/ FindUserResolves \/ IncrementReferrer \/ UpsertUser \/ SaveUserRejects

\* ------------------------------------------------------------------------
\* Specifications
\* ------------------------------------------------------------------------

\* The codec on every valid SearchState
InitCodec == CodecStart /\ SearchIdle /\ LinkIdle /\ StartIdle /\ DeliveryIdle /\ CallbackIdle /\ BatchIdle /\ UiIdle /\ TrendIdle /\ IndexIdle /\ PromoIdle /\ WebIdle /\ GateIdle /\ CatIdle /\ BiIdle /\ RefIdle

SpecCodec == InitCodec /\ [][CodecNext]_vars

\* Calls of searchFiles
InitSearch == SearchStart /\ CodecIdle /\ LinkIdle /\ StartIdle /\ DeliveryIdle /\ CallbackIdle /\ BatchIdle /\ UiIdle /\ TrendIdle /\ IndexIdle /\ PromoIdle /\ WebIdle /\ GateIdle /\ CatIdle /\ BiIdle /\ RefIdle

SpecSearch == InitSearch /\ [][SearchNext]_vars

\* /link messages
InitLink == LinkStart /\ CodecIdle /\ SearchIdle /\ StartIdle /\ DeliveryIdle /\ CallbackIdle /\ BatchIdle /\ UiIdle /\ TrendIdle /\ IndexIdle /\ PromoIdle /\ WebIdle /\ GateIdle /\ CatIdle /\ BiIdle /\ RefIdle

SpecLink == InitLink /\ [][LinkNext]_vars

\* /start messages
InitStart == StartBegin /\ CodecIdle /\ SearchIdle /\ LinkIdle /\ DeliveryIdle /\ CallbackIdle /\ BatchIdle /\ UiIdle /\ TrendIdle /\ IndexIdle /\ PromoIdle /\ WebIdle /\ GateIdle /\ CatIdle /\ BiIdle /\ RefIdle

SpecStart == InitStart /\ [][StartNext]_vars

\* Deliveries to one chat and the timers they arm
InitDelivery == DeliveryStart /\ CodecIdle /\ SearchIdle /\ LinkIdle /\ StartIdle /\ CallbackIdle /\ BatchIdle /\ UiIdle /\ TrendIdle /\ IndexIdle /\ PromoIdle /\ WebIdle /\ GateIdle /\ CatIdle /\ BiIdle /\ RefIdle

SpecDelivery == InitDelivery /\ [][DeliveryNext]_vars

\* Callback queries with any data
InitCallback == CallbackStart /\ CodecIdle /\ SearchIdle /\ LinkIdle /\ StartIdle /\ DeliveryIdle /\ BatchIdle /\ UiIdle /\ TrendIdle /\ IndexIdle /\ PromoIdle /\ WebIdle /\ GateIdle /\ CatIdle /\ BiIdle /\ RefIdle

SpecCallback == InitCallback /\ [][CallbackNext]_vars

\* The batch handlers on minted and crafted payloads
InitBatch == BatchStart /\ CodecIdle /\ SearchIdle /\ LinkIdle /\ StartIdle /\ DeliveryIdle /\ CallbackIdle /\ UiIdle /\ TrendIdle /\ IndexIdle /\ PromoIdle /\ WebIdle /\ GateIdle /\ CatIdle /\ BiIdle /\ RefIdle

SpecBatch == InitBatch /\ [][BatchNext]_vars

\* One result message and every button pressed on it
InitUi == UiStart /\ CodecIdle /\ SearchIdle /\ LinkIdle /\ StartIdle /\ DeliveryIdle /\ CallbackIdle /\ BatchIdle /\ TrendIdle /\ IndexIdle /\ PromoIdle /\ WebIdle /\ GateIdle /\ CatIdle /\ BiIdle /\ RefIdle

SpecUi == InitUi /\ [][UiNext]_vars

\* Calls of trackSearch in flight together on one collection
InitTrend == TrendStart /\ CodecIdle /\ SearchIdle /\ LinkIdle /\ StartIdle /\ DeliveryIdle /\ CallbackIdle /\ BatchIdle /\ UiIdle /\ IndexIdle /\ PromoIdle /\ WebIdle /\ GateIdle /\ CatIdle /\ BiIdle /\ RefIdle

SpecTrend == InitTrend /\ [][TrendNext]_vars

\* Calls of indexFile in flight together, and deletions
InitIndex == IndexStart /\ CodecIdle /\ SearchIdle /\ LinkIdle /\ StartIdle /\ DeliveryIdle /\ CallbackIdle /\ BatchIdle /\ UiIdle /\ TrendIdle /\ PromoIdle /\ WebIdle /\ GateIdle /\ CatIdle /\ BiIdle /\ RefIdle

SpecIndex == InitIndex /\ [][IndexNext]_vars

\* One delivery whose monetization settings are kept, and its timers
InitPromo == DeliveryStart /\ CodecIdle /\ SearchIdle /\ LinkIdle /\ StartIdle /\ CallbackIdle /\ BatchIdle /\ UiIdle /\ TrendIdle /\ IndexIdle /\ PromoIdle /\ WebIdle /\ GateIdle /\ CatIdle /\ BiIdle /\ RefIdle

SpecPromo == InitPromo /\ [][PromoNext]_vars

\* The cache of web search results over time
InitWeb == WebStart /\ CodecIdle /\ SearchIdle /\ LinkIdle /\ StartIdle /\ DeliveryIdle /\ CallbackIdle /\ BatchIdle /\ UiIdle /\ TrendIdle /\ IndexIdle /\ PromoIdle /\ GateIdle /\ CatIdle /\ BiIdle /\ RefIdle

SpecWeb == InitWeb /\ [][WebNext]_vars

\* Maintenance mode against every entry point that searches or delivers
InitGate == GateStart /\ CodecIdle /\ SearchIdle /\ LinkIdle /\ StartIdle /\ DeliveryIdle /\ CallbackIdle /\ BatchIdle /\ UiIdle /\ TrendIdle /\ IndexIdle /\ PromoIdle /\ WebIdle /\ CatIdle /\ BiIdle /\ RefIdle

SpecGate == InitGate /\ [][GateNext]_vars

\* The files collection from the start of the process on
InitCat == CatStart /\ CodecIdle /\ SearchIdle /\ LinkIdle /\ StartIdle /\ DeliveryIdle /\ CallbackIdle /\ BatchIdle /\ UiIdle /\ TrendIdle /\ IndexIdle /\ PromoIdle /\ WebIdle /\ GateIdle /\ BiIdle /\ RefIdle

SpecCat == InitCat /\ [][CatNext]_vars

\* Calls of batchIndexFromChannel, one iteration a step
InitBi == BiStart /\ CodecIdle /\ SearchIdle /\ LinkIdle /\ StartIdle /\ DeliveryIdle /\ CallbackIdle /\ BatchIdle /\ UiIdle /\ TrendIdle /\ IndexIdle /\ PromoIdle /\ WebIdle /\ GateIdle /\ CatIdle /\ RefIdle

SpecBi == InitBi /\ [][BiNext]_vars

\* Calls of saveUser in flight together
InitRef == RefStart /\ CodecIdle /\ SearchIdle /\ LinkIdle /\ StartIdle /\ DeliveryIdle /\ CallbackIdle /\ BatchIdle /\ UiIdle /\ TrendIdle /\ IndexIdle /\ PromoIdle /\ WebIdle /\ GateIdle /\ CatIdle /\ BiIdle

SpecRef == InitRef /\ [][RefNext]_vars

\* ------------------------------------------------------------------------
\* Claims
\* ------------------------------------------------------------------------

\* C1: the compact token round-trips.  Once a button of a result message
\* showing (page, filters) has been pressed, deserializeFilters has returned
\* the page and the three filters that serializeFilters wrote into the
\* button, an absent filter coming back as null.
C1_CompactRoundTrip ==
    cPhase \in {"decoded", "shared"} =>
        /\ decoded.page = shown.page
        /\ decoded.filters = shown.filters

\* C1 witness: a two-digit page with one filter absent and two set has been
\* decoded.
C1_Witness ==
    /\ cPhase = "decoded"
    /\ shown.page >= 10
    /\ shown.filters.file_lang = NULL
    /\ shown.filters.year # NULL
    /\ shown.filters.quality # NULL
    /\ decoded.filters.file_lang = NULL

\* C2: the deep link round-trips.  Once handleStatelessBatch has decoded the
\* payload the share handler built, it holds the query text, the page and
\* the three filters of the shared result message.
C2_DeepLinkRoundTrip ==
    cPhase = "opened" =>
        /\ opened.ok
        /\ opened.query = Str(shown.query)
        /\ opened.page = shown.page
        /\ opened.filters = shown.filters

\* C2 witness: a query text holding '%', '|' and ':' has been shared with a
\* filter set, and the link opened.
C2_Witness ==
    /\ cPhase = "opened"
    /\ shown.query = <<"%", "7", "C", "|", "%", "3", "A", ":">>
    /\ shown.page > 0
    /\ shown.filters.file_lang # NULL
    /\ shown.filters.year = NULL
    /\ opened.ok

\* ------------------------------------------------------------------------
\* searchFiles: paging flags, fallback, escaping, trending, store failures
\* ------------------------------------------------------------------------

\* The call ended in the catch block of searchFiles
EndedInCatch(out) == ~out.exact.called \/ out.exact.failed \/ out.fallback.failed

\* C3 as stated: hasPrev = (page > 0) whatever the outcome, store failure
\* included
C3_HasPrevAlways ==
    sPhase = "done" => (sOut.ret.hasPrev <=> sCall.page > 0)

\* C3: when searchFiles does not end in its catch block (exact results,
\* fuzzy fallback or empty result) the returned hasPrev equals (page > 0);
\* when a store call fails hasPrev is false whatever the page
C3_HasPrev ==
    sPhase = "done" =>
        IF EndedInCatch(sOut)
        THEN sOut.ret.hasPrev = FALSE
        ELSE (sOut.ret.hasPrev <=> sCall.page > 0)

C3_Witness ==
    /\ sPhase = "done"
    /\ sCall.page > 0
    /\ sOut.ret.isFuzzy
    /\ sOut.ret.hasPrev

\* The four conditions C4 names: the exact find returned no record for the
\* page, the query is not empty, no language filter, no year filter
FallbackConditions ==
    /\ sOut.exact.called /\ ~sOut.exact.failed
    /\ sOut.exactFound = 0
    /\ sCall.query # <<>>
    /\ ~Truthy(sCall.filters.file_lang)
    /\ ~Truthy(sCall.filters.year)

\* C4 as stated: isFuzzy = true if and only if the four conditions hold
C4_FuzzyIff ==
    sPhase = "done" => (sOut.ret.isFuzzy <=> FallbackConditions)

\* C4: searchFiles returns isFuzzy = true if and only if the exact find
\* returned no record for the page, the query is not empty, no language and
\* no year filter is set, and the fallback find does not fail; a quality
\* filter alone does not prevent the fallback
C4_FuzzyIffNoFailure ==
    sPhase = "done" =>
        (sOut.ret.isFuzzy <=> (FallbackConditions /\ ~sOut.fallback.failed))

C4_Witness ==
    /\ sPhase = "done"
    /\ sOut.ret.isFuzzy
    /\ Truthy(sCall.filters.quality)
    /\ sOut.ret.files # <<>>

RECURSIVE WellEscaped(_)
\* No regex metacharacter of s stands without a backslash before it
WellEscaped(s) ==
    IF s = <<>> THEN TRUE
    ELSE IF Head(s) = "\\" THEN Len(s) >= 2 /\ WellEscaped(SubSeq(s, 3, Len(s)))
    ELSE Head(s) \notin RegexMeta /\ WellEscaped(Tail(s))

\* C7: every user-supplied string (query, language, year, quality) stands
\* escaped in the predicate searchFiles builds
C7_PredicatesEscaped ==
    sPhase = "done" =>
        \A i \in 1..Len(sOut.conds) : WellEscaped(sOut.conds[i].inserted)

\* C9: a searchFiles call in which no store call fails adds exactly 1 to the
\* trending counter of the lowercased query when page = 0, no filter is set
\* and the query has at least 3 characters, whether the outcome is exact or
\* fuzzy; every other call leaves the counters unchanged
C9_TrendingCounted ==
    [][(sPhase = "idle" /\ sPhase' = "done"
        /\ ~EndedInCatch(sOut') /\ ~sOut'.track.failed) =>
            IF TrackGuard(sCall'.query, sCall'.page, sCall'.filters) /\ Len(sCall'.query) >= 3
            THEN trending' = [trending EXCEPT ![toLowerCase(sCall'.query)] = @ + 1]
            ELSE trending' = trending]_vars

\* C10: when the exact find or the fallback find fails, searchFiles returns
\* no record, hasNext = false and hasPrev = false; when only the trending
\* update fails, the records returned are those of the call without failure
C10_StoreFailure ==
    sPhase = "done" =>
        /\ (sOut.exact.failed \/ sOut.fallback.failed) =>
              /\ sOut.ret.files = <<>>
              /\ ~sOut.ret.hasNext
              /\ ~sOut.ret.hasPrev
        /\ sOut.track.failed =>
              /\ sOut.ret.files # <<>>
              /\ sOut.ret = searchFiles(catalog, sCall.query, sCall.page, sCall.filters, "none", 0).ret

C10_Witness ==
    /\ sPhase = "done"
    /\ sOut.fallback.failed
    /\ sCall.page > 0

\* ------------------------------------------------------------------------
\* /link: the range of a dump link
\* ------------------------------------------------------------------------

\* The message ids /link read from its arguments, in order: [lo, hi]
LinkRange ==
    LET args == Tail(Split(lIn.text, " "))
        a == parsePostUrl(At(args, 0))
        b == parsePostUrl(At(args, 1))
        second == IF b.ok THEN b.messageId ELSE a.messageId
    IN  [lo |-> IF a.messageId < second THEN a.messageId ELSE second,
         hi |-> IF a.messageId > second THEN a.messageId ELSE second]

\* C5: /link takes start = min and end = max of the two message ids; when
\* end - start > 100 it replies range-too-large and produces no payload,
\* otherwise the payload it produces carries s = start, e = end with
\* 0 <= e - s <= 100
C5_LinkRange ==
    (lPhase = "replied" /\ lReply.kind \in {"tooLarge", "link"}) =>
        IF LinkRange.hi - LinkRange.lo > 100
        THEN lReply.kind = "tooLarge" /\ lReply.payload = <<>>
        ELSE /\ lReply.kind = "link"
             /\ LET d == DumpDecode(lReply.payload)
                IN  /\ d.ok
                    /\ d.s = LinkRange.lo
                    /\ d.e = LinkRange.hi
                    /\ 0 <= d.e - d.s
                    /\ d.e - d.s <= 100

\* A link over exactly 101 ids, given with the larger id first
C5_Witness ==
    /\ lPhase = "replied"
    /\ lReply.kind = "link"
    /\ parsePostUrl(At(Tail(Split(lIn.text, " ")), 0)).messageId = LinkRange.hi
    /\ LinkRange.hi - LinkRange.lo = 100

\* ------------------------------------------------------------------------
\* /start: opening a share link
\* ------------------------------------------------------------------------

\* C8: a /start whose payload begins with 'search_' and that passes
\* checkUser and the force-subscribe check is routed to
\* handleStatelessBatch with the payload that follows the prefix
C8_SearchLinkRouted ==
    (/\ startPhase = "handled"
     /\ HasPrefix(startIn.startPayload, <<"s", "e", "a", "r", "c", "h", "_">>)
     /\ startOut.handler \notin {"maintenance", "banned", "joinChannel"}) =>
        /\ startOut.handler = "handleStatelessBatch"
        /\ startOut.arg = Drop(startIn.startPayload.s, Len(<<"s", "e", "a", "r", "c", "h", "_">>))

\* ------------------------------------------------------------------------
\* Delivery: every handle is deleted once, by its own timer, when due
\* ------------------------------------------------------------------------

\* The tickets: the content timers
Tickets == {i \in DOMAIN timers : timers[i].kind = "content"}

\* The deleteMessage attempts made on message m
AttemptsOn(m) == {k \in DOMAIN deleteLog : deleteLog[k].msg = m}

\* C6: in every delivery path each handle of a ticket has its deletion
\* attempted exactly once, by the ticket's own timer, 3600 s after the
\* timer was armed, never earlier, never twice, never by another ticket;
\* and an armed timer leaves the armed state only by firing when it is due
C6_DeletedOnceWhenDue ==
    /\ [](\A i \in Tickets :
            /\ timers[i].due = timers[i].armedAt + 3600
            /\ now <= timers[i].due \/ timers[i].state = "fired"
            /\ \A h \in 1..Len(timers[i].handles) :
                  LET tried == AttemptsOn(timers[i].handles[h])
                  IN  IF timers[i].state = "armed"
                      THEN tried = {}
                      ELSE /\ Cardinality(tried) = 1
                           /\ \A k \in tried :
                                 /\ deleteLog[k].by = i
                                 /\ deleteLog[k].at = timers[i].armedAt + 3600)
    /\ [][\A i \in DOMAIN timers :
            timers[i].state = "armed" =>
                /\ i \in DOMAIN timers'
                /\ \/ timers'[i] = timers[i]
                   \/ /\ timers'[i] = [timers[i] EXCEPT !.state = "fired"]
                      /\ now = timers[i].due]_vars

\* Two tickets of different paths whose lifetimes overlapped, both fired,
\* the second one a batch of two handles
C6_Witness ==
    \E i, j \in Tickets :
        /\ i < j
        /\ timers[i].path = "sendFile"
        /\ timers[j].path = "dump"
        /\ Len(timers[j].handles) = 2
        /\ timers[j].armedAt < timers[i].due
        /\ timers[i].state = "fired"
        /\ timers[j].state = "fired"

\* ------------------------------------------------------------------------
\* searchFiles: the page of the exact path
\* ------------------------------------------------------------------------

\* The records of the catalog that satisfy every condition of the call
Matching ==
    {f \in catalog : \A i \in 1..Len(sOut.conds) : RegexTest(sOut.conds[i].re, f.file_name)}

\* The place of a record in the order of ingestion: 1 is the oldest
Recency(id) == CHOOSE i \in 1..Len(ingested) : ingested[i] = id

\* The call took the exact path: no catch block, no fuzzy fallback
ExactPath == sPhase = "done" /\ ~EndedInCatch(sOut) /\ ~sOut.ret.isFuzzy

\* C11: on the exact path, with N matching records, page p returns
\* min(10, max(0, N - 10p)) records, the matching records from offset 10p
\* in descending order of recency, hasNext is true iff N > 10(p + 1); no
\* call returns more than 10 records
C11_ExactPage ==
    LET N == Cardinality(Matching)
        p == sCall.page
        files == sOut.ret.files
        rest == IF N - 10 * p > 0 THEN N - 10 * p ELSE 0
    IN  /\ sPhase = "done" => Len(files) <= 10
        /\ ExactPath =>
              /\ Len(files) = (IF rest < 10 THEN rest ELSE 10)
              /\ sOut.ret.hasNext <=> N > 10 * (p + 1)
              /\ \A j \in 1..Len(files) :
                    /\ \E f \in Matching : f.id = files[j]
                    /\ Cardinality({f \in Matching : Recency(f.id) > Recency(files[j])})
                           = 10 * p + j - 1

\* ------------------------------------------------------------------------
\* Callback tokens: malformed tokens, and the page of a token
\* ------------------------------------------------------------------------

\* Every character of s is a decimal digit, and there is at least one
AllDigits(s) == s # <<>> /\ \A i \in 1..Len(s) : IsDigit(s[i])

\* The token has fewer than four fields, or its first field is no number
Malformed(data) ==
    LET parts == Split(data, ":")
    IN  Len(parts) < 4 \/ ~AllDigits(parts[1])

\* C12: a malformed or truncated token received by the p:, fapl:, gall: or
\* s: handler gives the 'state lost' outcome, and no search is run with it
C12_MalformedTokenStateLost ==
    (cbPhase = "done" /\ Malformed(cbIn.token)) =>
        /\ cbOut.outcome = "stateLost"
        /\ ~cbOut.searched

\* C13: the page deserializeFilters returns is never negative, and is 0
\* whenever the first field does not parse as a non-negative integer
C13_PageNonNegative ==
    cbPhase = "done" =>
        LET first == parseInt(At(Split(cbIn.token, ":"), 0))
            page == deserializeFilters(cbIn.token).page
        IN  /\ page >= 0
            /\ (first.nan \/ first.n < 0) => page = 0

C15_LinkAtMost100Items ==
    (lPhase = "replied" /\ lReply.kind = "link")
        => LET d == DumpDecode(lReply.payload)
           IN  d.ok /\ d.e - d.s + 1 <= MaxLinkRange

\* C16: handleDumpBatch copies messages only for a range with
\* 0 <= end - start <= 100, so no payload gives more than 101 copy attempts.
C16_CopiesWithinRange ==
    (bPhase = "done" /\ bIn.path = "dump" /\ bOut.attempted # <<>>)
        => LET d == DumpDecode(bIn.payload)
           IN  /\ 0 <= d.e - d.s
               /\ d.e - d.s <= MaxLinkRange
               /\ Len(bOut.attempted) <= MaxLinkRange + 1

\* The content timer whose callback sent the notice of timer i: the last one
\* of the same path that was due when the notice was armed
NoticeOf(i) ==
    {j \in 1..(i - 1) : /\ timers[j].kind = "content"
                        /\ timers[j].path = timers[i].path
                        /\ timers[j].due = timers[i].armedAt}

\* C17: in every delivery path the 'deleted' notice is deleted between 8 and
\* 10 seconds after it was sent; for a single delivered item (sendFile) the
\* item is due at T + 3600 and the notice at T + 3610.
C17_NoticeDeletedAfter8To10 ==
    \A i \in DOMAIN timers :
        timers[i].kind = "notice"
            => /\ timers[i].due - timers[i].armedAt >= 8
               /\ timers[i].due - timers[i].armedAt <= 10
               /\ timers[i].path = "sendFile"
                      => \E j \in NoticeOf(i) :
                            /\ timers[j].due = timers[j].armedAt + 3600
                            /\ timers[i].due = timers[j].armedAt + 3610

\* The items the loop of the batch handled last has to go through, <<>> when
\* the handler returned before its loop
BatchItems ==
    IF bIn.path = "gall" THEN bIn.files
    ELSE IF bIn.path = "dump" /\ bOut.replies \in {<<"fetching">>, <<"fetching", "noFiles">>}
    THEN LET d == DumpDecode(bIn.payload) IN DumpRange(d.s, d.e)
    ELSE <<>>

\* C18: in a batch delivery where some sends fail, every item is still
\* attempted, in order, and the handles kept for the deletion timer are
\* exactly the messages of the sends that succeeded, in order; the timer is
\* armed when there is at least one.
C18_FailedSendsSkipped ==
    bPhase = "done"
        => /\ bOut.attempted = BatchItems
           /\ \A k \in 1..Len(BatchItems) :
                 (BatchItems[k] \notin bIn.failing) <=> (BatchItems[k] \in Range(bOut.sentMessages))
           /\ Range(bOut.sentMessages) \subseteq Range(BatchItems)
           /\ \A k, l \in 1..Len(bOut.sentMessages) :
                 k < l => bOut.sentMessages[k] < bOut.sentMessages[l]
           /\ bOut.armed <=> bOut.sentMessages # <<>>

C18_Witness ==
    /\ bPhase = "done"
    /\ bIn.path = "dump"
    /\ Len(bOut.attempted) >= 3
    /\ bOut.attempted[1] \in bIn.failing
    /\ bOut.attempted[2] \notin bIn.failing
    /\ bOut.attempted[3] \in bIn.failing
    /\ bOut.sentMessages = <<bOut.attempted[2]>>
    /\ bOut.armed

\* The messages of the deleteMessage attempts a step adds to the log
AttemptedInStep == [k \in 1..(Len(deleteLog') - Len(deleteLog)) |-> deleteLog'[Len(deleteLog) + k].msg]

\* C19: tickets of one chat whose lifetimes overlap do not interact: no two
\* timers hold a handle in common, the callback of a timer that fires
\* attempts to delete its own handles and no other, and every other timer
\* keeps its handle list, its firing time and its state; a step that fires
\* no timer deletes nothing and changes no timer.
C19_TicketsIndependent ==
    /\ [](\A i, j \in DOMAIN timers :
            i # j => Range(timers[i].handles) \cap Range(timers[j].handles) = {})
    /\ [][/\ DOMAIN timers \subseteq DOMAIN timers'
          /\ \A i \in DOMAIN timers :
                IF timers[i].state = "armed" /\ timers'[i].state = "fired"
                THEN /\ AttemptedInStep = timers[i].handles
                     /\ \A j \in DOMAIN timers \ {i} : timers'[j] = timers[j]
                ELSE /\ timers'[i].handles = timers[i].handles
                     /\ timers'[i].due = timers[i].due
          /\ (\A i \in DOMAIN timers : timers'[i].state = timers[i].state)
                => AttemptedInStep = <<>>]_vars

\* Two tickets armed before either was due; the first has fired and its
\* handles alone were attempted, the second is still armed
C19_Witness ==
    \E i, j \in Tickets :
        /\ i # j
        /\ timers[i].handles # <<>>
        /\ timers[j].handles # <<>>
        /\ timers[j].armedAt < timers[i].due
        /\ timers[i].armedAt < timers[j].due
        /\ timers[i].state = "fired"
        /\ timers[j].state = "armed"
        /\ \A k \in DOMAIN deleteLog : deleteLog[k].msg \in Range(timers[i].handles)
        /\ deleteLog # <<>>

\* C20: no failure of a transport call made inside a scheduled deletion
\* callback (deleting a handle, sending the notice, deleting the notice)
\* leaves the callback as an uncaught exception or an unhandled rejection.
C20_NoFailureEscapes == unhandled = {}

\* C30: when the timer of a ticket has fired, the deletion of each of its
\* handles was attempted and the send of one 'deleted' notice followed,
\* whether the deletions succeeded or failed, in sendFile as in the batch
\* paths; a notice that was sent has its own timer, armed when the ticket
\* was due.
C30_NoticeAfterEveryFiring ==
    \A i \in Tickets :
        timers[i].state = "fired"
            => /\ \A h \in 1..Len(timers[i].handles) : AttemptsOn(timers[i].handles[h]) # {}
               /\ \E n \in noticeLog : n.by = i /\ n.outcome \in {"sent", "failed"}
               /\ \A n \in noticeLog :
                     (n.by = i /\ n.outcome = "sent")
                         => \E j \in DOMAIN timers : timers[j].kind = "notice" /\ i \in NoticeOf(j)

\* C31: a deletion timer is armed, and a 'deleted' notice later sent, only
\* for a delivery that delivered at least one message: every content timer
\* holds at least one handle, in every delivery path.
C31_TimerOnlyForDelivered ==
    /\ \A i \in Tickets : timers[i].handles # <<>>
    /\ \A n \in noticeLog : n.outcome = "sent" => timers[n.by].handles # <<>>

\* ------------------------------------------------------------------------
\* The result message and its buttons
\* ------------------------------------------------------------------------

FilterKeys == {"file_lang", "year", "quality"}

\* A filter value with null and undefined both read as absent
Present(v) == IF v \in {NULL, UNDEFINED} THEN NULL ELSE v

\* The same three filters
SameFilters(a, b) == \A k \in FilterKeys : Present(a[k]) = Present(b[k])

AnyFilterSet(filters) == \E k \in FilterKeys : Present(filters[k]) # NULL

\* The last update was a button whose handler went on to searchFiles
Searched == uiPhase = "shown" /\ uiLast.outcome \in {"results", "editFailed"}

\* C21: whatever buttons were pressed on a result message, the handler of
\* the next one finds the original query (the text the first search was run
\* with) or nothing; and it finds the original query whenever the message
\* that triggered the search is still attached.
C21_QueryPreserved ==
    (uiPhase = "shown" /\ uiLast.handler \in {"p", "fapl"})
        => /\ uiLast.query \in {NULL, Str(uiTrigger.query)}
           /\ uiTrigger.attached => uiLast.query = Str(uiTrigger.query)

\* C22: on every result page reached through the buttons of the bot the
\* page is not negative, a Prev button is there only when page > 0 and
\* leads to page - 1, a Next button only when hasNext and leads to
\* page + 1, both with the three filters of the page.
C22_PagingButtons ==
    uiScreen.kind = "results"
        => /\ uiScreen.page >= 0
           /\ \A b \in uiScreen.buttons :
                 LET r == Route(b.data)
                     d == deserializeFilters(r.arg)
                 IN  /\ b.label = "prev"
                          => /\ uiScreen.page > 0
                             /\ r.handler = "p"
                             /\ d.page = uiScreen.page - 1
                             /\ SameFilters(d.filters, uiScreen.filters)
                     /\ b.label = "next"
                          => /\ uiScreen.hasNext
                             /\ r.handler = "p"
                             /\ d.page = uiScreen.page + 1
                             /\ SameFilters(d.filters, uiScreen.filters)

\* The second page of a filtered search, reached with Next, shows Prev
C22_Witness ==
    /\ uiScreen.kind = "results"
    /\ uiLast.label = "next"
    /\ uiLast.outcome = "results"
    /\ uiScreen.page = 1
    /\ uiScreen.filters.year = Str(<<"2", "0", "2", "1">>)
    /\ \E b \in uiScreen.buttons : b.label = "prev"

\* C23: a value chosen in a filter menu re-runs the search at page 0 with
\* that filter set to the value and the other two as they were on the
\* result page the menu was opened from.
C23_ApplyKeepsOthers ==
    (Searched /\ uiLast.label = "value")
        => /\ uiLast.page = 0
           /\ uiLast.filters[uiLast.key] = Str(uiLast.value)
           /\ \A k \in FilterKeys \ {uiLast.key} :
                 Present(uiLast.filters[k]) = Present(uiLast.from.filters[k])
           /\ uiLast.outcome = "results"
                 => /\ uiScreen.kind = "results"
                    /\ uiScreen.page = 0
                    /\ uiScreen.filters = uiLast.filters

\* A quality chosen on the second page of a search filtered by year
C23_Witness ==
    /\ Searched
    /\ uiLast.label = "value"
    /\ uiLast.key = "quality"
    /\ uiLast.from.kind = "qual"
    /\ uiLast.from.page = 1
    /\ uiLast.from.filters.year = Str(<<"2", "0", "2", "1">>)
    /\ uiLast.outcome = "results"
    /\ uiScreen.filters.year = Str(<<"2", "0", "2", "1">>)
    /\ uiScreen.filters.quality = Str(<<"7", "2", "0", "p">>)

\* C24: Back to Results, pressed on a filter menu (the year menu on any of
\* its pages), re-runs and re-renders the page and the filters of the
\* result page the menu was opened from.
C24_BackRestores ==
    (Searched /\ uiLast.label = "back")
        => /\ uiLast.page = uiLast.from.page
           /\ SameFilters(uiLast.filters, uiLast.from.filters)
           /\ uiLast.outcome = "results"
                 => /\ uiScreen.kind = "results"
                    /\ uiScreen.page = uiLast.from.page
                    /\ SameFilters(uiScreen.filters, uiLast.from.filters)

\* Back from the last page of the year menu to the second page of a
\* filtered search
C24_Witness ==
    /\ Searched
    /\ uiLast.label = "back"
    /\ uiLast.from.kind = "year"
    /\ uiLast.from.yrPage = 2
    /\ uiLast.from.page = 1
    /\ uiLast.from.filters.year = Str(<<"2", "0", "2", "1">>)
    /\ uiLast.outcome = "results"
    /\ uiScreen.page = 1

\* C25: a result message has a Clear Filters button exactly when one of
\* its three filters is set, also when it shows no record; pressing it
\* re-runs the search at page 0 without any filter.
C25_ClearFilters ==
    /\ uiScreen.kind = "results"
          => ((\E b \in uiScreen.buttons : b.label = "clear") <=> AnyFilterSet(uiScreen.filters))
    /\ (Searched /\ uiLast.label = "clear")
          => /\ uiLast.page = 0
             /\ ~AnyFilterSet(uiLast.filters)
             /\ uiLast.outcome = "results"
                   => /\ uiScreen.kind = "results"
                      /\ uiScreen.page = 0
                      /\ ~AnyFilterSet(uiScreen.filters)

\* Clear Filters pressed on a page that showed no record for the year 2000
C25_Witness ==
    /\ Searched
    /\ uiLast.label = "clear"
    /\ uiLast.from.kind = "results"
    /\ uiLast.from.filters.year = Str(<<"2", "0", "0", "0">>)
    /\ uiLast.outcome = "results"
    /\ uiScreen.nFiles > 0
    /\ \A b \in uiScreen.buttons : b.label # "clear"

\* ------------------------------------------------------------------------
\* searchFiles: the fallback path and the filters
\* ------------------------------------------------------------------------

\* The call returned from the fallback path
FuzzyPath == sPhase = "done" /\ sOut.ret.isFuzzy

\* C26: on the fallback path the ranked list holds R records of the catalog,
\* at most 1000, and page p returns its items at the positions 10p .. 10p+9
\* that exist, in ranked order, with hasNext exactly when R > 10(p + 1),
\* and isFuzzy true.
C26_FuzzyPage ==
    (sPhase = "done" /\ sOut.fallback.called /\ ~sOut.fallback.failed)
        => LET R == Len(sOut.ranked)
               first == 10 * sCall.page
               n == IF R - first > 10 THEN 10 ELSE IF R - first < 0 THEN 0 ELSE R - first
           IN  /\ R <= 1000
               /\ Range(sOut.ranked) \subseteq {f.id : f \in catalog}
               /\ sOut.ret.files = [i \in 1..n |-> sOut.ranked[first + i]]
               /\ sOut.ret.hasNext <=> R > 10 * (sCall.page + 1)
               /\ sOut.ret.isFuzzy

\* A ranked list of exactly ten records, shown whole on the first page
C26_Witness ==
    /\ FuzzyPath
    /\ sCall.page = 0
    /\ Len(sOut.ranked) = 10
    /\ Len(sOut.ret.files) = 10
    /\ ~sOut.ret.hasNext

\* The display name of the record of key id
NameOf(id) == (CHOOSE f \in catalog : f.id = id).file_name

\* needle occurs in hay
Contains(hay, needle) ==
    \E i \in 1..(Len(hay) - Len(needle) + 1) : SubSeq(hay, i, i + Len(needle) - 1) = needle

\* C27: every record searchFiles returns satisfies every filter of the
\* call; with a quality filter each returned display name contains the
\* quality tag, on the exact path and on the fallback path.
C27_ResultsSatisfyFilters ==
    sPhase = "done"
        => \A i \in 1..Len(sOut.ret.files) :
              /\ \A c \in 1..Len(sOut.conds) :
                    sOut.conds[c].source # "query"
                        => RegexTest(sOut.conds[c].re, NameOf(sOut.ret.files[i]))
              /\ Truthy(sCall.filters.quality)
                    => Contains(toLowerCase(NameOf(sOut.ret.files[i])),
                                toLowerCase(sCall.filters.quality.s))

\* ------------------------------------------------------------------------
\* Calls in flight together
\* ------------------------------------------------------------------------

\* Every call of trackSearch has returned
TrackersReturned ==
    trendPhase = "on" /\ \A p \in 1..MaxCallers : trackers[p].pc \in {"resolved", "caught", "returned"}

\* The calls whose updateOne resolved for the counter key
ResolvedFor(key) ==
    {p \in 1..MaxCallers : trackers[p].pc = "resolved" /\ toLowerCase(trackers[p].query) = key}

\* C28: when every call of trackSearch has returned, the N calls of one
\* lowercased query whose update resolved leave a single counter document
\* for it, with count N, however the calls interleaved at the store.
C28_SingleCounter ==
    TrackersReturned
        => \A key \in {toLowerCase(query) : query \in TrackQueries} :
              LET n == Cardinality(ResolvedFor(key))
              IN  IF n = 0 THEN TrendMatches(key) = {}
                  ELSE /\ Cardinality(TrendMatches(key)) = 1
                       /\ \A i \in TrendMatches(key) : trendDocs[i].count = n

\* The call has returned without a failure of the store itself
ReturnedClean(p) == indexers[p].pc = "returned" /\ ~indexers[p].fault

\* C29: the files collection holds at most one document per primary key;
\* a call of indexFile that finds its key stored returns duplicate = true
\* and stores nothing; and of two calls for the same key that both find it
\* absent, with no deletion of that key, exactly one returns success and the
\* other returns duplicate = true.
C29_IndexFileUnique ==
    indexPhase = "on"
        => /\ \A i, j \in 1..Len(fileDocs) : fileDocs[i] = fileDocs[j] => i = j
           /\ \A p \in 1..MaxCallers :
                 (ReturnedClean(p) /\ ~indexers[p].sawAbsent)
                     => indexers[p].result.duplicate /\ ~indexers[p].inserted
           /\ \A p, r \in 1..MaxCallers :
                 ( /\ p # r
                   /\ ReturnedClean(p) /\ ReturnedClean(r)
                   /\ indexers[p].key = indexers[r].key
                   /\ indexers[p].sawAbsent /\ indexers[r].sawAbsent
                   /\ indexers[p].key \notin deleted )
                     => \/ indexers[p].result.success /\ indexers[r].result.duplicate
                        \/ indexers[r].result.success /\ indexers[p].result.duplicate

\* ------------------------------------------------------------------------
\* The monetization forward
\* ------------------------------------------------------------------------

\* The timers of forwarded monetization posts
PromoTimers == {i \in DOMAIN timers : timers[i].kind = "promo"}

\* C32: a promotional forward is made only when growth lock is on, a
\* channel and a last post id are set and the requester is not premium; its
\* deletion is attempted exactly once, 300 s after the forward, by its own
\* timer, apart from the content ticket that is due 3600 s after the
\* delivery; and a forward that fails leaves the content delivered and its
\* ticket armed as without the forward.
C32_PromoForward ==
    promoIn.made
        => /\ PromoTimers # {}
                 => /\ promoIn.growthLock /\ promoIn.channelSet /\ promoIn.postSet
                    /\ ~promoIn.premium
                    /\ Cardinality(PromoTimers) = 1
           /\ \A i \in PromoTimers :
                 /\ timers[i].due = timers[i].armedAt + 300
                 /\ Len(timers[i].handles) = 1
                 /\ LET tried == AttemptsOn(timers[i].handles[1])
                    IN  IF timers[i].state = "armed"
                        THEN tried = {} /\ now <= timers[i].due
                        ELSE /\ Cardinality(tried) = 1
                             /\ \A k \in tried : deleteLog[k].by = i /\ deleteLog[k].at = timers[i].armedAt + 300
                 /\ \A j \in Tickets :
                       /\ timers[i].handles[1] \notin Range(timers[j].handles)
                       /\ timers[j].due = timers[j].armedAt + 3600
           /\ (promoIn.nSent > 0 /\ promoIn.nFiles > 0)
                 => \E j \in Tickets : Len(timers[j].handles) = promoIn.nSent

\* The monetization post was forwarded before a delivery of one file, and at
\* 300 s its deletion was attempted while the content ticket is still armed
C32_Witness ==
    /\ promoIn.made
    /\ promoIn.path = "sendFile"
    /\ \E i \in PromoTimers, j \in Tickets :
          /\ timers[i].state = "fired"
          /\ timers[j].state = "armed"
          /\ AttemptsOn(timers[i].handles[1]) # {}
          /\ now = 300

\* ------------------------------------------------------------------------
\* The cache of web search results
\* ------------------------------------------------------------------------

\* C33: web search results expire 30 minutes after they were cached: a
\* wsrp: request for a search id cached more than 30 minutes ago is
\* answered 'Results expired'; when the sweep has just run the cache holds
\* no entry older than 30 minutes, and no entry of 30 minutes or less is
\* ever missing from the cache.
C33_WebResultsExpire ==
    webPhase = "on"
        => /\ (webLast.outcome # "none" /\ webLast.age > 30) => webLast.outcome = "expired"
           /\ (webSwept = webNow)
                 => \A id \in webCache : webNow - webMade[id].timestamp <= 30
           /\ \A id \in 1..Len(webMade) :
                 webNow - webMade[id].timestamp <= 30 => id \in webCache

\* ------------------------------------------------------------------------
\* Maintenance mode
\* ------------------------------------------------------------------------

\* C34: while maintenance mode is on no handler searches or delivers for a
\* user who is not an admin, whichever entry point the update came by: a
\* text search, a /start deep link, or a button of an earlier message.
C34_MaintenanceBlocksAll ==
    (gateLast.entry \in GateEntries /\ gateLast.maintenance /\ ~IsAdminUser(gateLast.user))
        => ~gateLast.served

\* ------------------------------------------------------------------------
\* The files collection
\* ------------------------------------------------------------------------

\* The documents of the step's first state that its second state holds
\* under the same _id with another content
UpdatedInPlace == {f \in storeFiles : \E g \in storeFiles' : g.id = f.id /\ g # f}

\* What indexing and deletion may do to the collection in one step:
\* indexing only inserts, a deletion only removes, a post in the delete
\* channel removes at most one document, the size-only fallback only the
\* one document of that byte size
InsertsAndRemovals ==
    /\ catLast'.op = "index" => storeFiles \subseteq storeFiles'
    /\ catLast'.op \in {"adminDelete", "deletePost"}
          => /\ storeFiles' \subseteq storeFiles
             /\ Cardinality(storeFiles \ storeFiles') <= 1
    /\ (catLast'.op = "deletePost" /\ catLast'.branch = "size")
          => /\ Cardinality({f \in storeFiles : f.size = catLast'.size}) = 1
             /\ \A f \in storeFiles \ storeFiles' : f.size = catLast'.size

C36_BatchIndexBounded ==
    biPhase \in {"running", "done"}
        => /\ biLoop.i <= 1000
           /\ biLoop.cur <= biIn.from - biLoop.i
           /\ biLoop.stop = "e400" => MessageAt(biIn.channel, biLoop.cur) = "e400"
           /\ biLoop.indexed + biLoop.duplicates + biLoop.errors <= biLoop.i

\* ------------------------------------------------------------------------
\* Referrals
\* ------------------------------------------------------------------------

\* C37: a referral count is incremented at most once for each referred
\* user: only by a call for a user who is not stored, with a referral that
\* names another user, never for a user stored from the start, also when
\* two calls for one new user are in flight together.
C37_OneReferralPerUser ==
    refPhase = "on"
        => /\ \A u \in RefUsers : refIncs[u] <= 1
           /\ \A u \in StoredAtStart : refIncs[u] = 0
           /\ \A p \in 1..MaxCallers :
                 savers[p].incremented
                     => /\ ~savers[p].existing
                        /\ savers[p].referredBy \notin {0, savers[p].user}

\* The inputs of the call that are present, in the order searchFiles tests them
PresentPredicates ==
    (IF sCall.query # <<>> THEN <<"query">> ELSE <<>>)
    \o (IF Truthy(sCall.filters.file_lang) THEN <<"language">> ELSE <<>>)
    \o (IF Truthy(sCall.filters.year) THEN <<"year">> ELSE <<>>)
    \o (IF Truthy(sCall.filters.quality) THEN <<"quality">> ELSE <<>>)

\* Whether every condition of the call matches the record f
MatchesEvery(f) ==
    \A c \in 1..Len(sOut.conds) : RegexTest(sOut.conds[c].re, f.file_name)

\* C38: searchFiles builds one condition per predicate that is present
\* (query text, language, year, quality); the exact find returns the page of
\* exactly the records that every one of these conditions matches, newest
\* key first, and with no predicate present the page is cut from all the
\* records of the store.
C38_PredicatesAnded ==
    (sPhase = "done" /\ sOut.exact.called /\ ~sOut.exact.failed)
        => LET matching == {f \in catalog : MatchesEvery(f)}
               first == RESULTS_PER_PAGE * sCall.page
               rest == Cardinality(matching) - first
               n == IF rest > RESULTS_PER_PAGE THEN RESULTS_PER_PAGE
                    ELSE IF rest < 0 THEN 0 ELSE rest
               sorted == SortDesc(matching)
           IN  /\ Len(sOut.conds) = Len(PresentPredicates)
               /\ PresentPredicates = <<>> => matching = catalog
               /\ sOut.exactFound = n
               /\ ExactPath => sOut.ret.files = [i \in 1..n |-> sorted[first + i].id]

\* A search with two predicates returned records although another record
\* of the store satisfies only one of them.
C38_Witness ==
    /\ ExactPath
    /\ Len(sOut.conds) >= 2
    /\ Len(sOut.ret.files) >= 1
    /\ \E f \in catalog :
          /\ ~MatchesEvery(f)
          /\ \E c \in 1..Len(sOut.conds) : RegexTest(sOut.conds[c].re, f.file_name)

\* A search without any predicate returned the first page of a store of
\* more than RESULTS_PER_PAGE records.
C38_EmptyPredicate ==
    /\ ExactPath
    /\ PresentPredicates = <<>>
    /\ Cardinality(catalog) > RESULTS_PER_PAGE
    /\ Len(sOut.ret.files) = RESULTS_PER_PAGE

====
